---- MODULE Spec2Model ----
(***************************************************************************)
(* Memory-management core of the ferrite kernel (i386): the Buddy page     *)
(* allocator with its node-pool backed free lists, the slab caches and the *)
(* global heap, the frame bitmap allocator and the two-level paging layer. *)
(*                                                                         *)
(* Machine words are 32 bits.  A word w >= 2^31 is written as the integer  *)
(* w - 2^32 (two's complement), so 0xC1000000 is -1056964608.              *)
(***************************************************************************)
EXTENDS Integers, Sequences, FiniteSets, TLC

VARIABLES
    buddy,      \* BuddyAllocator: base, size, max_order, free_lists, map
    pool,       \* NodePoolAllocator: base, capacity, bitmap
    caches,     \* SLAB_CACHES: the SlabCache array
    ram,        \* memory words written so far, by address (node pool and slab pages)
    frames,     \* FRAME_BITMAP (as the set of frames whose bit is clear) and next_free_idx
    pmem,       \* CR3 and the contents of the frames used as page directory or page table
    env,        \* what the build and the machine fix: field layout, overflow checks, stale RAM
    err,        \* "" while the kernel runs; otherwise why it stopped (panic, hang, wild access)
    memblock,   \* MemBlockAllocator: the two region arrays and their counts
    cpu,        \* the locks the processor holds and what it is in the middle of
    next_free_virt, \* NEXT_FREE_VIRT_ADDR of the dynamic virtual-range allocator
    boot,       \* where kernel start-up stands: the step reached, and what ran so far
    live,       \* allocations handed out and not yet given back (the caller's view)
    last        \* the last operation performed and its result (the caller's view)

vars == <<buddy, pool, caches, ram, frames, pmem, memblock, cpu, next_free_virt, boot, env, err, live, last>>

----------------------------------------------------------------------------
(* Program constants *)

PAGE_SIZE == 4096
MAX_ORDERS == 32
USIZE_BITS == 32
NODE_SIZE == 12
NODE_POOL_VIRT_START == -1056964608
NODE_ALIGN == 4
SLAB_META_SIZE == 28
SLAB_CACHE_COUNT == 9
TOTAL_FRAMES == 1048576
BITMAP_ENTRY_SIZE_BITS == 64
BITMAP_ARRAY_SIZE == 16384
KERNEL_OFFSET == -1073741824
PAGE_SIZE_4MIB == 4194304
PRESENT == 1
WRITABLE == 2
PAGE_SIZE_EXT == 128

CACHE_SIZES == <<4, 8, 16, 32, 64, 128, 256, 512, 1024>>

(* Bounds of the model *)

MaxLive == 2
MaxOps == 5
MaxObjs == 4
MaxSlabOps == 6
MaxHeapOps == 4
MaxFrames == 3
MaxFrameOps == 6
MaxPageOps == 4

----------------------------------------------------------------------------
(* Word arithmetic *)

Min(S) == CHOOSE x \in S : \A y \in S : x <= y
Max(S) == CHOOSE x \in S : \A y \in S : x >= y

Pow2(n) == 2 ^ n

\* usize::div_ceil
div_ceil(a, b) == (a + b - 1) \div b

\* unsigned a < b on two's-complement words
ULt(a, b) == IF (a < 0) = (b < 0) THEN a < b ELSE b < 0

UMin(a, b) == IF ULt(b, a) THEN b ELSE a

\* unsigned x / d for a power of two d
UDiv(x, d) == IF x >= 0 THEN x \div d ELSE (2147483647 \div d) + 1 + (x \div d) + (2147483647 \div d) + 1

\* unsigned a + off leaves 32 bits (0 <= off < 2^31)
AddOverflows(a, off) == a < 0 /\ a + off >= 0

\* x & !(PAGE_SIZE - 1) on a 32-bit word (PAGE_SIZE divides 2^32)
PageBase(x) == x - (x % PAGE_SIZE)

----------------------------------------------------------------------------
(* The running kernel's memory state, threaded through every operation.    *)
(* An operation that panics, hangs or touches memory outside every mapped  *)
(* region stops the kernel: err records why and the rest is skipped.       *)

St == [ram |-> ram, buddy |-> buddy, pool |-> pool, caches |-> caches, err |-> err]

Fail(st, why) == IF st.err = "" THEN [st EXCEPT !.err = why] ELSE st

\* usize `x -= 1`: panics under overflow checks, wraps to 0xFFFFFFFF without
CanDec(x) == x # 0 \/ ~env.overflow_checks
Dec(x) == x - 1

PoolBytes(np) == div_ceil(np.capacity * NODE_SIZE, PAGE_SIZE) * PAGE_SIZE

\* the node-pool pages mapped at NODE_POOL_VIRT_START by memory_init
InPool(np, a) == a - np.base >= 0 /\ a - np.base < PoolBytes(np)

\* the physical range Buddy hands out, which the slab layer addresses directly
InBuddyRam(b, a) == a >= b.base /\ a - b.base < b.size

Accessible(st, a) ==
    /\ a % 4 = 0
    /\ InPool(st.pool, a) \/ InBuddyRam(st.buddy, a)

\* a word never written still holds what the RAM held at boot
Read(st, a) == IF a \in DOMAIN st.ram THEN st.ram[a] ELSE env.garbage

Write(st, a, v) == [st EXCEPT !.ram = (a :> v) @@ st.ram]

----------------------------------------------------------------------------
(* NodePoolAllocator *)

NodePoolNew(base, capacity) ==
    [base |-> base, capacity |-> capacity, map |-> {}]

\* the first slot index whose bit is clear, word by word; -1 when the pool is full
find_block(np) ==
    LET words == div_ceil(np.capacity, USIZE_BITS)
        Cand(w) == IF \A i \in 0..(USIZE_BITS - 1) : (w * USIZE_BITS + i) \in np.map
                   THEN -1
                   ELSE Min({w * USIZE_BITS + i : i \in {j \in 0..(USIZE_BITS - 1) :
                                                      (w * USIZE_BITS + j) \notin np.map}})
        Hits == {w \in 0..(words - 1) : Cand(w) # -1 /\ Cand(w) < np.capacity}
    IN IF Hits = {} THEN -1 ELSE Cand(Min(Hits))

\* NodePoolAllocator::mark_allocated
node_pool_mark_allocated(st, index) ==
    IF index >= st.pool.capacity THEN Fail(st, "panic: mark_allocated: Index out of bounds")
    ELSE IF index \in st.pool.map THEN Fail(st, "panic: node pool double allocation")
    ELSE [st EXCEPT !.pool.map = @ \cup {index}]

\* mark_deallocated without the test of the bit
node_pool_mark_deallocated_unchecked(st, index) ==
    IF index >= st.pool.capacity THEN Fail(st, "panic: mark_deallocated: Index out of bounds")
    ELSE [st EXCEPT !.pool.map = @ \ {index}]

\* NodePoolAllocator::mark_deallocated
node_pool_mark_deallocated(st, index) ==
    IF index >= st.pool.capacity THEN Fail(st, "panic: mark_deallocated: Index out of bounds")
    ELSE IF index \notin st.pool.map THEN Fail(st, "panic: node pool double free")
    ELSE [st EXCEPT !.pool.map = @ \ {index}]

\* alloc without the test of the layout's size
node_pool_alloc_any_size(st, size, align) ==
    LET np == st.pool
        index == find_block(np)
    IN IF align > NODE_ALIGN \/ index = -1
       THEN [st |-> st, ret |-> 0]
       ELSE [st |-> node_pool_mark_allocated(st, index),
             ret |-> np.base + index * NODE_SIZE]

\* NodePoolAllocator::alloc through NodeAllocatorWrapper::allocate; ret = 0 is null
node_pool_alloc(st, size, align) ==
    LET np == st.pool
        index == find_block(np)
    IN IF size # NODE_SIZE \/ align > NODE_ALIGN \/ index = -1
       THEN [st |-> st, ret |-> 0]
       ELSE [st |-> node_pool_mark_allocated(st, index),
             ret |-> np.base + index * NODE_SIZE]

\* NodePoolAllocator::dealloc through NodeAllocatorWrapper::deallocate
node_pool_dealloc(st, ptr, size, align) ==
    LET np == st.pool
        offset == ptr - np.base
        index == offset \div NODE_SIZE
    IN IF size # NODE_SIZE \/ align > NODE_ALIGN THEN st
       ELSE IF offset < 0 \/ offset >= np.capacity * NODE_SIZE THEN st
       ELSE IF offset % NODE_SIZE # 0 THEN st
       ELSE node_pool_mark_deallocated(st, index)

----------------------------------------------------------------------------
(* IntrusiveLinkedList<Slab>: the lists of a SlabCache.  A list is the     *)
(* record [head, tail, len] stored in caches[ci][ln]; 0 is None.  The node *)
(* of a slab is the IntrusiveNode embedded in the slab's header.           *)

INODE == [container |-> 0, next |-> 1, prev |-> 2]

INodeF(node, f) == node + 4 * INODE[f]

\* address of field f of the Slab header at slab_ptr
SlabF(slab_ptr, f) == slab_ptr + 4 * env.slab[f]

EmptyList == [head |-> 0, tail |-> 0, len |-> 0]

IList(st, ci, ln) == st.caches[ci][ln]

SetIList(st, ci, ln, l) == [st EXCEPT !.caches[ci][ln] = l]

\* IntrusiveLinkedList::remove_node
remove_node(st, ci, ln, node) ==
    IF ~Accessible(st, node) THEN Fail(st, "wild") ELSE
    LET prev == Read(st, INodeF(node, "prev"))
        next == Read(st, INodeF(node, "next"))
    IN IF (next # 0 /\ ~Accessible(st, next)) \/ (prev # 0 /\ ~Accessible(st, prev))
       THEN Fail(st, "wild") ELSE
       LET s1 == IF next # 0 THEN Write(st, INodeF(next, "prev"), prev) ELSE st
           s2 == IF prev # 0 THEN Write(s1, INodeF(prev, "next"), next) ELSE s1
           l  == IList(s2, ci, ln)
           h  == IF l.head = node THEN next ELSE l.head
           t  == IF l.tail = node THEN prev ELSE l.tail
           s3 == SetIList(s2, ci, ln, [l EXCEPT !.head = h, !.tail = t])
       IN IF ~CanDec(l.len) THEN Fail(s3, "panic: attempt to subtract with overflow")
          ELSE LET s4 == SetIList(s3, ci, ln, [head |-> h, tail |-> t, len |-> Dec(l.len)])
               IN Write(Write(s4, INodeF(node, "prev"), 0), INodeF(node, "next"), 0)

\* IntrusiveLinkedList::pop_front_node; ret = 0 is None
pop_front_node(st, ci, ln) ==
    LET l == IList(st, ci, ln)
        popped == l.head
    IN IF popped = 0 THEN [st |-> st, ret |-> 0]
       ELSE IF ~Accessible(st, popped) THEN [st |-> Fail(st, "wild"), ret |-> 0]
       ELSE
       LET new_head == Read(st, INodeF(popped, "next"))
           s1 == Write(st, INodeF(popped, "next"), 0)
       IN IF new_head # 0 /\ ~Accessible(st, new_head)
          THEN [st |-> Fail(s1, "wild"), ret |-> 0]
          ELSE
          LET s2 == IF new_head # 0 THEN Write(s1, INodeF(new_head, "prev"), 0) ELSE s1
              t  == IF new_head # 0 THEN l.tail ELSE 0
              s3 == Write(SetIList(s2, ci, ln, [l EXCEPT !.head = new_head, !.tail = t]),
                          INodeF(popped, "prev"), 0)
          IN IF ~CanDec(l.len)
             THEN [st |-> Fail(s3, "panic: attempt to subtract with overflow"), ret |-> 0]
             ELSE [st |-> SetIList(s3, ci, ln,
                                   [head |-> new_head, tail |-> t, len |-> Dec(l.len)]),
                   ret |-> popped]

\* IntrusiveLinkedList::push_front_node
push_front_node(st, ci, ln, node) ==
    LET l == IList(st, ci, ln) IN
    IF ~Accessible(st, node) \/ (l.head # 0 /\ ~Accessible(st, l.head))
    THEN Fail(st, "wild") ELSE
    LET s1 == Write(Write(st, INodeF(node, "next"), l.head), INodeF(node, "prev"), 0)
        s2 == IF l.head = 0 THEN s1 ELSE Write(s1, INodeF(l.head, "prev"), node)
        t  == IF l.head = 0 THEN node ELSE l.tail
    IN SetIList(s2, ci, ln, [head |-> node, tail |-> t, len |-> l.len + 1])

\* IntrusiveLinkedList::push_back_node
push_back_node(st, ci, ln, node) ==
    LET l == IList(st, ci, ln) IN
    IF ~Accessible(st, node) \/ (l.tail # 0 /\ ~Accessible(st, l.tail))
    THEN Fail(st, "wild") ELSE
    LET s1 == Write(Write(st, INodeF(node, "prev"), l.tail), INodeF(node, "next"), 0)
        s2 == IF l.tail = 0 THEN s1 ELSE Write(s1, INodeF(l.tail, "next"), node)
        h  == IF l.tail = 0 THEN node ELSE l.head
    IN SetIList(s2, ci, ln, [head |-> h, tail |-> node, len |-> l.len + 1])

----------------------------------------------------------------------------
(* SlabCache::dealloc.  The slab header is found by masking the pointer,   *)
(* whatever memory the pointer lies in.                                    *)

SlabCacheNew(size, slab_order) ==
    LET offset == ((SLAB_META_SIZE + 4 - 1) \div 4) * 4
        usable_space == PAGE_SIZE * Pow2(slab_order) - offset
    IN [slabs_full |-> EmptyList, slabs_partial |-> EmptyList, slabs_free |-> EmptyList,
        object_size |-> size, slab_order |-> slab_order,
        objects_per_slab |-> IF size > 0 THEN usable_space \div size ELSE 0]

\* a dealloc that leaves the slab's free-list head where it was
forget_free_object(st, slab_ptr, ptr) ==
    Write(st, ptr, Read(st, SlabF(slab_ptr, "first_free_object")))

\* the freed object becomes the head of its slab's free list
push_free_object(st, slab_ptr, ptr) ==
    LET next_free_ptr_val == Read(st, SlabF(slab_ptr, "first_free_object"))
    IN Write(Write(st, ptr, next_free_ptr_val), SlabF(slab_ptr, "first_free_object"), ptr)

\* dealloc that leaves a slab on slabs_partial when its last object is freed
slab_dealloc_keep_partial(st, ci, ptr, size) ==
    LET cache == st.caches[ci]
        slab_alloc_size == Pow2(cache.slab_order) * PAGE_SIZE
        slab_ptr == ptr - (ptr % slab_alloc_size)
        node_ptr == SlabF(slab_ptr, "list")
        Counted(s3, in_use3) ==
            IF s3.err # "" THEN s3
            ELSE IF ~CanDec(in_use3) THEN Fail(s3, "panic: attempt to subtract with overflow")
            ELSE Write(s3, SlabF(slab_ptr, "objects_in_use"), Dec(in_use3))
        Moved(s3) == Counted(s3, Read(s3, SlabF(slab_ptr, "objects_in_use")))
        Removed(r, to) == IF r.err # "" THEN r ELSE push_back_node(r, ci, to, node_ptr)
        Pushed(s2, in_use) ==
            IF in_use = cache.objects_per_slab
            THEN Moved(Removed(remove_node(s2, ci, "slabs_full", node_ptr), "slabs_partial"))
            ELSE Moved(s2)
        Freed(s2) == Pushed(s2, Read(s2, SlabF(slab_ptr, "objects_in_use")))
    IN IF env.debug /\ (size > cache.object_size \/ ptr = 0 \/ cache.object_size < 4)
       THEN Fail(st, "panic: debug assertion")
       ELSE IF slab_ptr = 0 THEN st
       ELSE IF ~Accessible(st, slab_ptr) \/ ~Accessible(st, ptr - (ptr % 4))
       THEN Fail(st, "wild")
       ELSE IF ptr % 4 # 0 THEN Fail(st, "wild")
       ELSE Freed(push_free_object(st, slab_ptr, ptr))

\* SlabCache::dealloc
slab_dealloc(st, ci, ptr, size) ==
    LET cache == st.caches[ci]
        slab_alloc_size == Pow2(cache.slab_order) * PAGE_SIZE
        slab_ptr == ptr - (ptr % slab_alloc_size)
        node_ptr == SlabF(slab_ptr, "list")
        Counted(s3, in_use3) ==
            IF s3.err # "" THEN s3
            ELSE IF ~CanDec(in_use3) THEN Fail(s3, "panic: attempt to subtract with overflow")
            ELSE Write(s3, SlabF(slab_ptr, "objects_in_use"), Dec(in_use3))
        Moved(s3) == Counted(s3, Read(s3, SlabF(slab_ptr, "objects_in_use")))
        Removed(r, to) == IF r.err # "" THEN r ELSE push_back_node(r, ci, to, node_ptr)
        Pushed(s2, in_use) ==
            IF in_use = cache.objects_per_slab
            THEN Moved(Removed(remove_node(s2, ci, "slabs_full", node_ptr), "slabs_partial"))
            ELSE IF in_use = 1
            THEN Moved(Removed(remove_node(s2, ci, "slabs_partial", node_ptr), "slabs_free"))
            ELSE Moved(s2)
        Freed(s2) == Pushed(s2, Read(s2, SlabF(slab_ptr, "objects_in_use")))
    IN IF env.debug /\ (size > cache.object_size \/ ptr = 0 \/ cache.object_size < 4)
       THEN Fail(st, "panic: debug assertion")
       ELSE IF slab_ptr = 0 THEN st
       ELSE IF ~Accessible(st, slab_ptr) \/ ~Accessible(st, ptr - (ptr % 4))
       THEN Fail(st, "wild")
       ELSE IF ptr % 4 # 0 THEN Fail(st, "wild")
       ELSE Freed(push_free_object(st, slab_ptr, ptr))

----------------------------------------------------------------------------
(* The global heap: GlobalAlloc for Locked<KernelAllocator>                *)

\* the class test with > in place of >=
position_strict(size) ==
    LET hits == {i \in 1..SLAB_CACHE_COUNT : CACHE_SIZES[i] > size}
    IN IF hits = {} THEN 0 ELSE Min(hits)

\* CACHE_SIZES.iter().position(|&cache_size| cache_size >= size); 0 is None
position(size) ==
    LET hits == {i \in 1..SLAB_CACHE_COUNT : CACHE_SIZES[i] >= size}
    IN IF hits = {} THEN 0 ELSE Min(hits)

global_dealloc(st, ptr, size) ==
    LET index == position(size)
    IN IF index = 0 THEN Fail(st, "panic: dealloc: No suitable cache found")
       ELSE IF st.caches = <<>> THEN Fail(st, "panic: Heap allocator not initialized yet")
       ELSE slab_dealloc(st, index, ptr, size)

----------------------------------------------------------------------------
(* LinkedList<PhysAddr, NodeAllocatorWrapper>: the Buddy free lists.  List *)
(* k is the record [head, tail, len] in buddy.free_lists[k]; its nodes are *)
(* three-word Node<PhysAddr> values in the node pool.                      *)

\* address of field f of the Node at n
NodeF(n, f) == n + 4 * env.node[f]

FList(st, k) == st.buddy.free_lists[k]

SetFList(st, k, l) == [st EXCEPT !.buddy.free_lists[k] = l]

\* LinkedList::push_back_node
list_push_back_node(st, k, node) ==
    LET l == FList(st, k) IN
    IF l.tail # 0 /\ ~Accessible(st, l.tail) THEN Fail(st, "wild") ELSE
    LET s1 == Write(Write(st, NodeF(node, "next"), 0), NodeF(node, "prev"), l.tail)
        s2 == IF l.tail = 0 THEN s1 ELSE Write(s1, NodeF(l.tail, "next"), node)
        h  == IF l.tail = 0 THEN node ELSE l.head
    IN SetFList(s2, k, [head |-> h, tail |-> node, len |-> l.len + 1])

\* LinkedList::push_back: Box::new_in(Node::new(elt), &self.alloc), then link
push_back(st, k, elt) ==
    LET Boxed(s, node) ==
            IF node = 0 THEN Fail(st, "panic: memory allocation failed")
            ELSE list_push_back_node(Write(Write(Write(s, NodeF(node, "next"), 0),
                                                 NodeF(node, "prev"), 0),
                                           NodeF(node, "element"), elt),
                                     k, node)
        Allocated(r) == Boxed(r.st, r.ret)
    IN Allocated(node_pool_alloc(st, NODE_SIZE, NODE_ALIGN))

\* LinkedList::pop_back over pop_back_node; the Box is dropped into the node
\* pool.  some = FALSE is None.
pop_back(st, k) ==
    LET l == FList(st, k)
        node == l.tail
    IN IF node = 0 THEN [st |-> st, some |-> FALSE, ret |-> 0]
       ELSE IF ~Accessible(st, node) THEN [st |-> Fail(st, "wild"), some |-> FALSE, ret |-> 0]
       ELSE
       LET new_tail == Read(st, NodeF(node, "prev"))
           h == IF new_tail = 0 THEN 0 ELSE l.head
       IN IF new_tail # 0 /\ ~Accessible(st, new_tail)
          THEN [st |-> Fail(st, "wild"), some |-> FALSE, ret |-> 0]
          ELSE
          LET s1 == IF new_tail = 0 THEN st ELSE Write(st, NodeF(new_tail, "next"), 0)
              s2 == SetFList(s1, k, [l EXCEPT !.tail = new_tail, !.head = h])
          IN IF ~CanDec(l.len)
             THEN [st |-> Fail(s2, "panic: attempt to subtract with overflow"),
                   some |-> FALSE, ret |-> 0]
             ELSE LET s3 == SetFList(s2, k, [head |-> h, tail |-> new_tail,
                                             len |-> Dec(l.len)])
                  IN [st |-> node_pool_dealloc(s3, node, NODE_SIZE, NODE_ALIGN),
                      some |-> TRUE, ret |-> Read(st, NodeF(node, "element"))]

\* LinkedList::push_front_node
list_push_front_node(st, k, node) ==
    LET l == FList(st, k) IN
    IF l.head # 0 /\ ~Accessible(st, l.head) THEN Fail(st, "wild") ELSE
    LET s1 == Write(Write(st, NodeF(node, "next"), l.head), NodeF(node, "prev"), 0)
        s2 == IF l.head = 0 THEN s1 ELSE Write(s1, NodeF(l.head, "prev"), node)
        t  == IF l.head = 0 THEN node ELSE l.tail
    IN SetFList(s2, k, [head |-> node, tail |-> t, len |-> l.len + 1])

\* a push_front that links the node at the tail
push_front_at_tail(st, k, elt) == push_back(st, k, elt)

\* LinkedList::push_front: Box::new_in(Node::new(elt), &self.alloc), then link
push_front(st, k, elt) ==
    LET Boxed(s, node) ==
            IF node = 0 THEN Fail(st, "panic: memory allocation failed")
            ELSE list_push_front_node(Write(Write(Write(s, NodeF(node, "next"), 0),
                                                  NodeF(node, "prev"), 0),
                                            NodeF(node, "element"), elt),
                                      k, node)
        Allocated(r) == Boxed(r.st, r.ret)
    IN Allocated(node_pool_alloc(st, NODE_SIZE, NODE_ALIGN))

\* LinkedList::pop_front over pop_front_node; the Box is dropped into the node
\* pool.  some = FALSE is None.
pop_front(st, k) ==
    LET l == FList(st, k)
        node == l.head
    IN IF node = 0 THEN [st |-> st, some |-> FALSE, ret |-> 0]
       ELSE IF ~Accessible(st, node) THEN [st |-> Fail(st, "wild"), some |-> FALSE, ret |-> 0]
       ELSE
       LET new_head == Read(st, NodeF(node, "next"))
           t == IF new_head = 0 THEN 0 ELSE l.tail
       IN IF new_head # 0 /\ ~Accessible(st, new_head)
          THEN [st |-> Fail(st, "wild"), some |-> FALSE, ret |-> 0]
          ELSE
          LET s1 == IF new_head = 0 THEN st ELSE Write(st, NodeF(new_head, "prev"), 0)
              s2 == SetFList(s1, k, [l EXCEPT !.head = new_head, !.tail = t])
          IN IF ~CanDec(l.len)
             THEN [st |-> Fail(s2, "panic: attempt to subtract with overflow"),
                   some |-> FALSE, ret |-> 0]
             ELSE LET s3 == SetFList(s2, k, [head |-> new_head, tail |-> t,
                                             len |-> Dec(l.len)])
                  IN [st |-> node_pool_dealloc(s3, node, NODE_SIZE, NODE_ALIGN),
                      some |-> TRUE, ret |-> Read(st, NodeF(node, "element"))]

\* Drop of a LinkedList whose fields are head and len: pop_front_node until
\* it answers None, each Box going back to the allocator
RECURSIVE list_drop(_, _, _)
list_drop(st, head, len) ==
    IF head = 0 \/ st.err # "" THEN st
    ELSE IF ~Accessible(st, head) THEN Fail(st, "wild")
    ELSE LET next == Read(st, NodeF(head, "next"))
             Unlinked(s1) ==
                 IF ~CanDec(len) THEN Fail(s1, "panic: attempt to subtract with overflow")
                 ELSE list_drop(node_pool_dealloc(s1, head, NODE_SIZE, NODE_ALIGN),
                                next, Dec(len))
         IN IF next # 0 /\ ~Accessible(st, next) THEN Fail(st, "wild")
            ELSE Unlinked(IF next = 0 THEN st ELSE Write(st, NodeF(next, "prev"), 0))

\* LinkedList::clear: head, tail and len move into a list that is dropped
list_clear(st, k) ==
    list_drop(SetFList(st, k, EmptyList), FList(st, k).head, FList(st, k).len)

\* LinkedList::len, is_empty, front and back; some = FALSE is None
list_len(st, k) == FList(st, k).len
list_is_empty(st, k) == FList(st, k).head = 0
list_front(st, k) ==
    IF FList(st, k).head = 0 THEN [some |-> FALSE, ret |-> 0]
    ELSE [some |-> TRUE, ret |-> Read(st, NodeF(FList(st, k).head, "element"))]
list_back(st, k) ==
    IF FList(st, k).tail = 0 THEN [some |-> FALSE, ret |-> 0]
    ELSE [some |-> TRUE, ret |-> Read(st, NodeF(FList(st, k).tail, "element"))]

\* LinkedList::unlink_node
unlink_node(st, k, node) ==
    LET prev == Read(st, NodeF(node, "prev"))
        next == Read(st, NodeF(node, "next"))
    IN IF (prev # 0 /\ ~Accessible(st, prev)) \/ (next # 0 /\ ~Accessible(st, next))
       THEN Fail(st, "wild") ELSE
       LET s1 == IF prev # 0 THEN Write(st, NodeF(prev, "next"), next)
                 ELSE SetFList(st, k, [FList(st, k) EXCEPT !.head = next])
           s2 == IF next # 0 THEN Write(s1, NodeF(next, "prev"), prev)
                 ELSE SetFList(s1, k, [FList(s1, k) EXCEPT !.tail = prev])
           l  == FList(s2, k)
       IN IF ~CanDec(l.len) THEN Fail(s2, "panic: attempt to subtract with overflow")
          ELSE SetFList(s2, k, [l EXCEPT !.len = Dec(l.len)])

\* CursorMut::remove_current: unlink, then Box::from_raw(..) is dropped, which
\* releases the node through the global allocator
remove_current(st, k, node) ==
    LET Unlinked(s1) == IF s1.err # "" THEN s1 ELSE global_dealloc(s1, node, NODE_SIZE)
    IN Unlinked(unlink_node(st, k, node))

----------------------------------------------------------------------------
(* BuddyAllocator.  map is the set of block indices whose bit is set and   *)
(* map_len the number of words of the bitmap.  Orders stay far below 19 in *)
(* every run, so min_block_size * (1 << order) never leaves 31 bits.       *)

BlockSize(b, order) == b.min_block_size * Pow2(order)

\* floor(log2(blocks_count)) as computed by the shift loop of new
RECURSIVE Log2Loop(_, _)
Log2Loop(temp, max_order) ==
    IF temp > 1 THEN Log2Loop(temp \div 2, max_order + 1) ELSE max_order

\* BuddyAllocator::new(base) with G_SEGMENTS summing to total bytes
BuddyNew(st, base, total) ==
    LET size == total - base
        blocks_count == size \div PAGE_SIZE
        max_order == Log2Loop(blocks_count, 0)
        bitmap_bytes == div_ceil(blocks_count, 8)
        bitmap_words == div_ceil(bitmap_bytes, 4)
        b == [base |-> base, size |-> size, min_block_size |-> PAGE_SIZE,
              max_order |-> max_order,
              free_lists |-> [k \in 0..(MAX_ORDERS - 1) |-> EmptyList],
              map |-> {}, map_len |-> bitmap_words]
        s1 == [st EXCEPT !.buddy = b]
    IN IF blocks_count > 0 THEN push_back(s1, max_order, base) ELSE s1

\* PhysAddr - PhysAddr (checked_sub, panics on underflow), then / min_block_size
get_block_index(b, addr) == UDiv(addr - b.base, b.min_block_size)

\* x ^ block_size for a power of two block_size
XorBit(x, block_size) ==
    IF (x \div block_size) % 2 = 0 THEN x + block_size ELSE x - block_size

find_buddy_addr(b, addr, order) == b.base + XorBit(addr - b.base, BlockSize(b, order))

\* the first j in 0..2^order-1 whose word lies outside the map; -1 if none
FirstOut(b, i, order) ==
    LET out == {j \in 0..(Pow2(order) - 1) : (i + j) \div USIZE_BITS >= b.map_len}
    IN IF out = {} THEN -1 ELSE Min(out)

mark_allocated(st, addr, order) ==
    IF ULt(addr, st.buddy.base) THEN Fail(st, "panic: PhysAddr sub underflow") ELSE
    LET b == st.buddy
        i == get_block_index(b, addr)
        stop == FirstOut(b, i, order)
        n == IF stop = -1 THEN Pow2(order) ELSE stop
        s1 == [st EXCEPT !.buddy.map = @ \cup {i + j : j \in 0..(n - 1)}]
    IN IF stop = -1 THEN s1 ELSE Fail(s1, "panic: Allocation address out of map bounds")

mark_free(st, i, order) ==
    LET b == st.buddy
        stop == FirstOut(b, i, order)
        n == IF stop = -1 THEN Pow2(order) ELSE stop
        s1 == [st EXCEPT !.buddy.map = @ \ {i + j : j \in 0..(n - 1)}]
    IN IF stop = -1 THEN s1 ELSE Fail(s1, "panic: Allocation address out of map bounds")

is_free(b, i, order) ==
    \A j \in 0..(Pow2(order) - 1) :
        (i + j) \div USIZE_BITS < b.map_len /\ (i + j) \notin b.map

\* the order loop shared by find_free_block and dealloc
RECURSIVE OrderFor(_, _, _)
OrderFor(b, required_size, k) ==
    IF BlockSize(b, k) < required_size THEN OrderFor(b, required_size, k + 1) ELSE k

\* BuddyAllocator::remove_from_free_list: cursor walk from the head; a walk
\* that comes back to a node it has visited never ends
RECURSIVE CursorWalk(_, _, _, _, _)
CursorWalk(st, addr, order, current, seen) ==
    IF current = 0
    THEN Fail(st, "panic: Failed to remove address: address not found in list")
    ELSE IF ~Accessible(st, current) THEN Fail(st, "wild")
    ELSE IF current \in seen THEN Fail(st, "hang")
    ELSE IF Read(st, NodeF(current, "element")) = addr
    THEN remove_current(st, order, current)
    ELSE CursorWalk(st, addr, order, Read(st, NodeF(current, "next")),
                    seen \cup {current})

remove_from_free_list(st, addr, order) ==
    IF order >= MAX_ORDERS THEN Fail(st, "panic: Invalid order provided to remove_from_free_list")
    ELSE CursorWalk(st, addr, order, FList(st, order).head, {})

\* the split loop of find_free_block
RECURSIVE SplitLoop(_, _, _, _)
SplitLoop(st, block_addr, k, required_order) ==
    IF st.err # "" \/ k <= required_order THEN st
    ELSE IF AddOverflows(block_addr, BlockSize(st.buddy, k - 1))
    THEN Fail(st, "panic: PhysAddr add overflow")
    ELSE SplitLoop(push_back(st, k - 1, block_addr + BlockSize(st.buddy, k - 1)),
                   block_addr, k - 1, required_order)

\* BuddyAllocator::find_free_block; some = FALSE is None
find_free_block(st, size, align) ==
    LET b == st.buddy
        required_order == OrderFor(b, Max({size, align}), 0)
        avail == {k \in required_order..(MAX_ORDERS - 1) : FList(st, k).head # 0}
        Marked(s2, addr) == [st |-> s2, some |-> s2.err = "", ret |-> addr]
        Split(s1, addr) ==
            Marked(IF s1.err # "" THEN s1 ELSE mark_allocated(s1, addr, required_order), addr)
        Popped(p, k) ==
            IF p.st.err # "" \/ ~p.some THEN [st |-> p.st, some |-> FALSE, ret |-> 0]
            ELSE Split(SplitLoop(p.st, p.ret, k, required_order), p.ret)
        From(k) == Popped(pop_back(st, k), k)
    IN IF required_order >= MAX_ORDERS \/ avail = {}
       THEN [st |-> st, some |-> FALSE, ret |-> 0]
       ELSE From(Min(avail))

\* BuddyAllocator::alloc; ret = 0 is the null pointer
buddy_alloc(st, size, align) ==
    LET Found(r) == [st |-> r.st, ret |-> IF r.some THEN r.ret ELSE 0]
    IN Found(find_free_block(st, size, align))

\* the merge loop of dealloc
RECURSIVE MergeLoop(_, _, _)
MergeLoop(st, current_addr, current_order) ==
    IF st.err # "" THEN st
    ELSE IF current_order >= MAX_ORDERS - 1 THEN push_back(st, current_order, current_addr)
    ELSE IF ULt(current_addr, st.buddy.base) THEN Fail(st, "panic: PhysAddr sub underflow")
    ELSE
    LET buddy_addr == find_buddy_addr(st.buddy, current_addr, current_order)
        buddy_index == get_block_index(st.buddy, buddy_addr)
    IN IF AddOverflows(buddy_addr - st.buddy.base, st.buddy.base)
       THEN Fail(st, "panic: PhysAddr add overflow")
       ELSE IF ~is_free(st.buddy, buddy_index, current_order)
       THEN push_back(st, current_order, current_addr)
       ELSE MergeLoop(remove_from_free_list(st, buddy_addr, current_order),
                      UMin(current_addr, buddy_addr), current_order + 1)

\* BuddyAllocator::dealloc
buddy_dealloc(st, ptr, size, align) ==
    IF ULt(ptr, st.buddy.base) THEN Fail(st, "panic: PhysAddr sub underflow") ELSE
    LET i == get_block_index(st.buddy, ptr)
        order == OrderFor(st.buddy, Max({size, align}), 0)
    IN IF order >= MAX_ORDERS
       THEN Fail(st, "panic: Layout implies an order larger than MAX_ORDERS during dealloc")
       ELSE MergeLoop(mark_free(st, i, order), ptr, order)

----------------------------------------------------------------------------
(* SlabCache::alloc.  A slab is the Buddy block itself: the Slab header at *)
(* its base, the objects behind it.                                        *)

\* usize `x += 1`
CanInc(x) == x # -1 \/ ~env.overflow_checks

\* addr.align_up(align_of::<usize>())
align_up4(a) == ((a + 3) \div 4) * 4

\* a free list whose last object links back to the first
setup_free_list_unterminated(st, ci, start, count) ==
    LET size == st.caches[ci].object_size
        links == [a \in {start + i * size : i \in 0..(count - 1)} |->
                     IF a = start + (count - 1) * size THEN start ELSE a + size]
    IN [st EXCEPT !.ram = links @@ st.ram]

\* SlabCache::setup_free_list: object i links to object i + 1, the last to null
setup_free_list(st, ci, start, count) ==
    LET size == st.caches[ci].object_size
        links == [a \in {start + i * size : i \in 0..(count - 1)} |->
                     IF a = start + (count - 1) * size THEN 0 ELSE a + size]
    IN [st EXCEPT !.ram = links @@ st.ram]

\* SlabCache::add_object; ret = 0 is None
add_object(st, ci, popped_node) ==
    LET slab == Read(st, INodeF(popped_node, "container"))
        Listed(s3, object_ptr) == [st |-> s3, ret |-> IF s3.err = "" THEN object_ptr ELSE 0]
        Counted(s2, in_use, object_ptr) ==
            Listed(IF in_use + 1 = s2.caches[ci].objects_per_slab
                   THEN push_front_node(s2, ci, "slabs_full", popped_node)
                   ELSE push_front_node(s2, ci, "slabs_partial", popped_node),
                   object_ptr)
        Taken(s1, in_use, object_ptr) ==
            IF ~CanInc(in_use)
            THEN [st |-> Fail(s1, "panic: attempt to add with overflow"), ret |-> 0]
            ELSE Counted(Write(s1, SlabF(slab, "objects_in_use"), in_use + 1), in_use,
                         object_ptr)
        FirstFree(object_ptr) ==
            IF object_ptr = 0 THEN [st |-> st, ret |-> 0]
            ELSE IF ~Accessible(st, object_ptr) THEN [st |-> Fail(st, "wild"), ret |-> 0]
            ELSE Taken(Write(st, SlabF(slab, "first_free_object"), Read(st, object_ptr)),
                       Read(st, SlabF(slab, "objects_in_use")), object_ptr)
    IN IF slab = 0 THEN [st |-> st, ret |-> 0]
       ELSE IF ~Accessible(st, slab) THEN [st |-> Fail(st, "wild"), ret |-> 0]
       ELSE FirstFree(Read(st, SlabF(slab, "first_free_object")))

\* the third branch of SlabCache::alloc: a new slab from the Buddy allocator
new_slab(st, ci) ==
    LET cache == st.caches[ci]
        size_to_alloc == Pow2(cache.slab_order) * PAGE_SIZE
        Listed(s3, object_start) ==
            [st |-> s3, ret |-> IF s3.err = "" THEN object_start ELSE 0]
        Linked(s1, addr, object_start, objects_in_slab) ==
            LET next_free == IF objects_in_slab > 1 THEN Read(s1, object_start) ELSE 0
                node_ptr == SlabF(addr, "list")
                hdr == (INodeF(node_ptr, "container") :> addr)
                       @@ (INodeF(node_ptr, "next") :> 0)
                       @@ (INodeF(node_ptr, "prev") :> 0)
                       @@ (SlabF(addr, "cache") :> ci)
                       @@ (SlabF(addr, "base_vaddr") :> object_start)
                       @@ (SlabF(addr, "objects_in_use") :> 1)
                       @@ (SlabF(addr, "first_free_object") :> next_free)
            IN Listed(push_back_node([s1 EXCEPT !.ram = hdr @@ s1.ram], ci, "slabs_partial",
                                     node_ptr),
                      object_start)
        Block(s, addr, object_start, objects_in_slab) ==
            IF s.err # "" \/ addr = 0 THEN [st |-> s, ret |-> 0]
            ELSE IF ~Accessible(s, addr) THEN [st |-> Fail(s, "wild"), ret |-> 0]
            ELSE IF objects_in_slab = 0 \/ cache.object_size < 4
            THEN [st |-> Fail(s, "panic: Newly initialized slab has no free objects!"),
                  ret |-> 0]
            ELSE Linked(setup_free_list(s, ci, object_start, objects_in_slab), addr,
                        object_start, objects_in_slab)
        Sized(s, addr, object_start) ==
            Block(s, addr, object_start,
                  ((addr + size_to_alloc) - object_start) \div cache.object_size)
        Got(b) == Sized(b.st, b.ret, align_up4(b.ret + SLAB_META_SIZE))
    IN Got(buddy_alloc(st, size_to_alloc, PAGE_SIZE))

\* SlabCache::alloc; ret = 0 is the null pointer
slab_alloc(st, ci, size) ==
    LET cache == st.caches[ci]
        from == IF cache.slabs_partial.head # 0 THEN "slabs_partial"
                ELSE IF cache.slabs_free.head # 0 THEN "slabs_free" ELSE ""
        Popped(p) == IF p.st.err # "" \/ p.ret = 0 THEN [st |-> p.st, ret |-> 0]
                     ELSE add_object(p.st, ci, p.ret)
    IN IF size > cache.object_size
       THEN [st |-> Fail(st, "panic: assertion failed: layout.size() <= self.object_size"),
             ret |-> 0]
       ELSE IF from # "" THEN Popped(pop_front_node(st, ci, from))
       ELSE new_slab(st, ci)

\* GlobalAlloc::alloc for Locked<KernelAllocator>
global_alloc(st, size) ==
    LET index == position(size)
    IN IF size = 0 THEN [st |-> st, ret |-> 0]
       ELSE IF index = 0
       THEN [st |-> Fail(st, "panic: dealloc: No suitable cache found"), ret |-> 0]
       ELSE IF st.caches = <<>> THEN [st |-> st, ret |-> 0]
       ELSE slab_alloc(st, index, size)

----------------------------------------------------------------------------
(* FrameAllocator and FRAME_BITMAP.  The bitmap starts all ones; free is   *)
(* the set of frame numbers whose bit is 0, so bit b of word w is clear    *)
(* exactly when w * 64 + b is in free.  None is written -1.                *)

FrameAllocatorNew == [free |-> {}, next_free_idx |-> 0]

\* FrameAllocator::mark_range_used
mark_range_used(fa, start_frame, end_frame) ==
    [fa EXCEPT !.free = @ \ {f \in start_frame..(end_frame - 1) : f < TOTAL_FRAMES}]

\* FrameAllocator::init over memblock regions [base, base + size), the
\* kernel image and the bitmap's own frames
frame_init(fa, regions, kernel_start, kernel_end, bitmap_phys_addr) ==
    LET cleared == UNION { { f \in div_ceil(r.base, PAGE_SIZE)..((r.base + r.size) \div PAGE_SIZE - 1) :
                               f < TOTAL_FRAMES } : r \in regions }
        f1 == [fa EXCEPT !.free = @ \cup cleared]
        f2 == mark_range_used(f1, kernel_start \div PAGE_SIZE, div_ceil(kernel_end, PAGE_SIZE))
    IN mark_range_used(f2, bitmap_phys_addr \div PAGE_SIZE,
                       div_ceil(bitmap_phys_addr + BITMAP_ARRAY_SIZE * 8, PAGE_SIZE))

\* allocate_frame without the store into the bitmap
allocate_frame_unmarked(fa) ==
    LET cand == {f \in fa.free : f \div BITMAP_ENTRY_SIZE_BITS >= fa.next_free_idx}
    IN IF cand = {} THEN [fa |-> fa, ret |-> -1]
       ELSE [fa |-> [fa EXCEPT !.next_free_idx = Min(cand) \div BITMAP_ENTRY_SIZE_BITS],
             ret |-> Min(cand) * PAGE_SIZE]

\* FrameAllocator::allocate_frame: the lowest clear bit of the first word
\* at or after the hint that is not all ones
allocate_frame(fa) ==
    LET cand == {f \in fa.free : f \div BITMAP_ENTRY_SIZE_BITS >= fa.next_free_idx
                                  /\ f \div BITMAP_ENTRY_SIZE_BITS < BITMAP_ARRAY_SIZE}
        frame_idx == Min(cand)
    IN IF cand = {} THEN [fa |-> fa, ret |-> -1]
       ELSE [fa |-> [free |-> fa.free \ {frame_idx},
                     next_free_idx |-> frame_idx \div BITMAP_ENTRY_SIZE_BITS],
             ret |-> frame_idx * PAGE_SIZE]

\* deallocate_frame without the hint update
deallocate_frame_keep_hint(fa, frame) ==
    LET frame_idx == UDiv(frame, PAGE_SIZE)
    IN IF frame_idx >= TOTAL_FRAMES \/ frame_idx \in fa.free THEN fa
       ELSE [fa EXCEPT !.free = @ \cup {frame_idx}]

\* deallocate_frame that stores the hint before it looks at the bit
deallocate_frame_hint_first(fa, frame) ==
    LET frame_idx == UDiv(frame, PAGE_SIZE)
    IN IF frame_idx >= TOTAL_FRAMES THEN fa
       ELSE [free |-> fa.free \cup {frame_idx},
             next_free_idx |-> frame_idx \div BITMAP_ENTRY_SIZE_BITS]

\* FrameAllocator::deallocate_frame
deallocate_frame(fa, frame) ==
    LET frame_idx == UDiv(frame, PAGE_SIZE)
        entry_idx == frame_idx \div BITMAP_ENTRY_SIZE_BITS
    IN IF frame_idx >= TOTAL_FRAMES THEN fa
       ELSE IF frame_idx \in fa.free THEN fa
       ELSE [free |-> fa.free \cup {frame_idx},
             next_free_idx |-> IF entry_idx < fa.next_free_idx THEN entry_idx
                               ELSE fa.next_free_idx]

----------------------------------------------------------------------------
(* Paging.  pm.tables holds, by physical address, every frame that was     *)
(* written as a table: fill is the word in every entry not listed in ent.  *)
(* A frame never written reads as stale RAM.  Tables are reached through   *)
(* the direct map: the word at phys_to_virt(p) is the word at physical p.  *)

\* entry & flags::PRESENT, entry & flags::PAGE_SIZE_EXT, entry & 0xfffff000
Present(e) == e % 2 = 1
IsPse(e) == (e \div PAGE_SIZE_EXT) % 2 = 1
AddrOf(e) == e - (e % PAGE_SIZE)

\* paddr + KERNEL_OFFSET on 32-bit words
phys_to_virt(paddr) ==
    IF paddr >= KERNEL_OFFSET THEN paddr + KERNEL_OFFSET
    ELSE ((paddr - KERNEL_OFFSET) - KERNEL_OFFSET) - KERNEL_OFFSET

\* the addition in phys_to_virt leaves 32 bits
PhysToVirtOverflows(paddr) == paddr < 0 \/ paddr >= -KERNEL_OFFSET

\* the physical address behind a direct-map pointer
DirectMap(vaddr) ==
    IF vaddr < -KERNEL_OFFSET THEN vaddr - KERNEL_OFFSET
    ELSE ((vaddr + KERNEL_OFFSET) + KERNEL_OFFSET) + KERNEL_OFFSET

NoTable == [fill |-> env.garbage, ent |-> [i \in {} |-> 0]]

TableOf(pm, vptr) ==
    IF DirectMap(vptr) \in DOMAIN pm.tables THEN pm.tables[DirectMap(vptr)] ELSE NoTable

\* table[i]
TableRead(pm, vptr, i) ==
    LET t == TableOf(pm, vptr) IN IF i \in DOMAIN t.ent THEN t.ent[i] ELSE t.fill

\* table[i] = w
TableWrite(pm, vptr, i, w) ==
    LET t == TableOf(pm, vptr)
        ent == IF w = t.fill THEN [j \in DOMAIN t.ent \ {i} |-> t.ent[j]]
               ELSE (i :> w) @@ t.ent
    IN [pm EXCEPT !.tables = (DirectMap(vptr) :> [fill |-> t.fill, ent |-> ent]) @@ @]

\* new_page_table.iter_mut().for_each(|entry| *entry = 0)
TableZero(pm, vptr) ==
    [pm EXCEPT !.tables = (DirectMap(vptr) :> [fill |-> 0, ent |-> [i \in {} |-> 0]]) @@ @]

\* the scan of unmap_page for a present entry
page_table_is_empty(pm, vptr) ==
    LET t == TableOf(pm, vptr)
    IN /\ \A i \in DOMAIN t.ent : ~Present(t.ent[i])
       /\ Present(t.fill) => DOMAIN t.ent = 0..1023

PFail(ps, why) == [ps EXCEPT !.err = why]

\* a write through an entry reference of map_page
WritePte(ps, pt_phys_addr, vaddr, w) ==
    IF PhysToVirtOverflows(pt_phys_addr) /\ env.overflow_checks
    THEN PFail(ps, "panic: attempt to add with overflow")
    ELSE [ps EXCEPT !.pm = TableWrite(ps.pm, phys_to_virt(pt_phys_addr),
                                      UDiv(vaddr, PAGE_SIZE) % 1024, w)]

\* paging::map_page
map_page(ps, paddr, vaddr, flags) ==
    LET pd == phys_to_virt(ps.pm.cr3)
        pde_index == UDiv(vaddr, PAGE_SIZE_4MIB)
        pde == TableRead(ps.pm, pd, pde_index)
        r == allocate_frame(ps.fa)
        pte == paddr + (flags % PAGE_SIZE) + (IF Present(flags) THEN 0 ELSE PRESENT)
    IN IF paddr % PAGE_SIZE # 0 \/ vaddr % PAGE_SIZE # 0
       THEN PFail(ps, "panic: assertion failed: is_aligned")
       ELSE IF ~Present(pde)
       THEN IF r.ret = -1
            THEN PFail(ps, "panic: Allocation Failed: Could not allocate frame for new page table")
            ELSE LET pm1 == TableZero(ps.pm, phys_to_virt(r.ret))
                     pm2 == TableWrite(pm1, pd, pde_index, r.ret + PRESENT + WRITABLE)
                 IN WritePte([ps EXCEPT !.fa = r.fa, !.pm = pm2], r.ret, vaddr, pte)
       ELSE IF IsPse(pde)
       THEN PFail(ps, "panic: Conflict: Tried to map 4KiB page into a 4MiB mapped region")
       ELSE WritePte(ps, AddrOf(pde), vaddr, pte)

\* unmap_page with the PTE cleared and its frame released before the
\* present bit of the PTE is looked at
unmap_page_release_first(ps, vaddr) ==
    LET pt == phys_to_virt(AddrOf(TableRead(ps.pm, phys_to_virt(ps.pm.cr3),
                                            UDiv(vaddr, PAGE_SIZE_4MIB))))
        pte_index == UDiv(vaddr, PAGE_SIZE) % 1024
        Released(pte) ==
            [ps EXCEPT !.fa = deallocate_frame(ps.fa, AddrOf(pte)),
                       !.pm = TableWrite(ps.pm, pt, pte_index, 0),
                       !.err = IF Present(pte) THEN ""
                               ELSE "panic: Attempted to unmap unmapped virtual address (PTE not present)"]
    IN IF vaddr % PAGE_SIZE # 0
       THEN PFail(ps, "panic: assertion failed: is_aligned")
       ELSE IF ~Present(TableRead(ps.pm, phys_to_virt(ps.pm.cr3), UDiv(vaddr, PAGE_SIZE_4MIB)))
       THEN PFail(ps, "panic: Attempted to unmap unmapped virtual address (PDE not present)")
       ELSE IF IsPse(TableRead(ps.pm, phys_to_virt(ps.pm.cr3), UDiv(vaddr, PAGE_SIZE_4MIB)))
       THEN PFail(ps, "panic: Attempted to unmap 4MiB page using 4KiB unmap function")
       ELSE Released(TableRead(ps.pm, pt, pte_index))

\* paging::unmap_page
unmap_page(ps, vaddr) ==
    LET pd == phys_to_virt(ps.pm.cr3)
        pde_index == UDiv(vaddr, PAGE_SIZE_4MIB)
        pde == TableRead(ps.pm, pd, pde_index)
        pt_phys_addr == AddrOf(pde)
        pt == phys_to_virt(pt_phys_addr)
        pte_index == UDiv(vaddr, PAGE_SIZE) % 1024
        pte == TableRead(ps.pm, pt, pte_index)
        pm1 == TableWrite(ps.pm, pt, pte_index, 0)
        fa1 == deallocate_frame(ps.fa, AddrOf(pte))
    IN IF vaddr % PAGE_SIZE # 0
       THEN PFail(ps, "panic: assertion failed: is_aligned")
       ELSE IF ~Present(pde)
       THEN PFail(ps, "panic: Attempted to unmap unmapped virtual address (PDE not present)")
       ELSE IF IsPse(pde)
       THEN PFail(ps, "panic: Attempted to unmap 4MiB page using 4KiB unmap function")
       ELSE IF PhysToVirtOverflows(pt_phys_addr) /\ env.overflow_checks
       THEN PFail(ps, "panic: attempt to add with overflow")
       ELSE IF ~Present(pte)
       THEN PFail(ps, "panic: Attempted to unmap unmapped virtual address (PTE not present)")
       ELSE IF page_table_is_empty(pm1, pt)
       THEN [ps EXCEPT !.fa = deallocate_frame(fa1, pt_phys_addr),
                       !.pm = TableWrite(pm1, pd, pde_index, 0)]
       ELSE [ps EXCEPT !.fa = fa1, !.pm = pm1]

None == [some |-> FALSE, addr |-> 0, panic |-> FALSE]
Some(a) == [some |-> TRUE, addr |-> a, panic |-> FALSE]

\* translate that forgets the offset within a 4 KiB page
translate_frame_only(pm, vaddr) ==
    LET pde == TableRead(pm, phys_to_virt(pm.cr3), UDiv(vaddr, PAGE_SIZE_4MIB))
        pt_phys_addr == AddrOf(pde)
        pte == TableRead(pm, phys_to_virt(pt_phys_addr), UDiv(vaddr, PAGE_SIZE) % 1024)
    IN IF ~Present(pde) THEN None
       ELSE IF IsPse(pde)
       THEN Some((pde - (pde % PAGE_SIZE_4MIB)) + (vaddr % PAGE_SIZE_4MIB))
       ELSE IF PhysToVirtOverflows(pt_phys_addr) /\ env.overflow_checks
       THEN [None EXCEPT !.panic = TRUE]
       ELSE IF ~Present(pte) THEN None
       ELSE Some(AddrOf(pte))

\* paging::translate
translate(pm, vaddr) ==
    LET pde == TableRead(pm, phys_to_virt(pm.cr3), UDiv(vaddr, PAGE_SIZE_4MIB))
        pt_phys_addr == AddrOf(pde)
        pte == TableRead(pm, phys_to_virt(pt_phys_addr), UDiv(vaddr, PAGE_SIZE) % 1024)
    IN IF ~Present(pde) THEN None
       ELSE IF IsPse(pde)
       THEN Some((pde - (pde % PAGE_SIZE_4MIB)) + (vaddr % PAGE_SIZE_4MIB))
       ELSE IF PhysToVirtOverflows(pt_phys_addr) /\ env.overflow_checks
       THEN [None EXCEPT !.panic = TRUE]
       ELSE IF ~Present(pte) THEN None
       ELSE Some(AddrOf(pte) + (vaddr % PAGE_SIZE))

----------------------------------------------------------------------------
(* memblock.rs: the early allocator.  Two arrays of MAX_REGION regions,    *)
(* the available ones and the reserved ones, each with its count.          *)

MAX_REGION == 64

MemRegionNew(base, size) == [base |-> base, size |-> size]
MemRegionEmpty == MemRegionNew(0, 0)
is_empty(region) == region = MemRegionEmpty

\* printed counts the "Max Count" lines written by the call in progress
MemBlockAllocatorNew ==
    [memory_region |-> [i \in 0..(MAX_REGION - 1) |-> MemRegionEmpty],
     reserved_region |-> [i \in 0..(MAX_REGION - 1) |-> MemRegionEmpty],
     memory_count |-> 0,
     reserved_count |-> 0,
     printed |-> 0,
     err |-> ""]

\* add and reserved answer false, and write nothing, on a full array
memblock_can_add(mb) == mb.memory_count < MAX_REGION
memblock_can_reserve(mb) == mb.reserved_count < MAX_REGION

\* add that stores the region and leaves the count as it was
memblock_add_uncounted(mb, base, size) ==
    IF ~memblock_can_add(mb) THEN mb
    ELSE [mb EXCEPT !.memory_region[mb.memory_count] = MemRegionNew(base, size)]

memblock_add(mb, base, size) ==
    IF ~memblock_can_add(mb) THEN mb
    ELSE [mb EXCEPT !.memory_region[mb.memory_count] = MemRegionNew(base, size),
                    !.memory_count = mb.memory_count + 1]

memblock_reserved(mb, base, size) ==
    IF ~memblock_can_reserve(mb) THEN mb
    ELSE [mb EXCEPT !.reserved_region[mb.reserved_count] = MemRegionNew(base, size),
                    !.reserved_count = mb.reserved_count + 1]

MaxCountPrinted(mb) == [mb EXCEPT !.printed = mb.printed + 1]

\* the shift of remove, on one array: count - 1 underflows on an empty array,
\* which stops a checked build at once and an unchecked one at index 64
ShiftOut(regions, count, index) ==
    [i \in 0..(MAX_REGION - 1) |->
        IF i >= index /\ i < count - 1 THEN regions[i + 1]
        ELSE IF i = count - 1 THEN MemRegionEmpty
        ELSE regions[i]]

memblock_remove(mb, region_type, index) ==
    IF region_type = "Available"
    THEN IF mb.memory_count = 0 THEN Fail(mb, "panic: memblock remove from empty array")
         ELSE [mb EXCEPT !.memory_region = ShiftOut(mb.memory_region, mb.memory_count, index),
                         !.memory_count = mb.memory_count - 1]
    ELSE IF region_type = "Reserved"
    THEN IF mb.reserved_count = 0 THEN Fail(mb, "panic: memblock remove from empty array")
         ELSE [mb EXCEPT !.reserved_region =
                            ShiftOut(mb.reserved_region, mb.reserved_count, index),
                         !.reserved_count = mb.reserved_count - 1]
    ELSE mb

\* init: one available region per available segment, in order
RECURSIVE memblock_init(_, _)
memblock_init(mb, segments) ==
    IF segments = <<>> THEN mb
    ELSE IF ~memblock_can_add(mb)
         THEN Fail(mb, "panic: memblock: MAX_COUNT is full in memory segment")
         ELSE memblock_init(memblock_add(mb, segments[1].base, segments[1].size),
                            Tail(segments))

next_multiple_of(n, m) == ((n + m - 1) \div m) * m

\* base rounded up to required_align, a power of two
AlignedAddr(base, required_align) ==
    IF base % required_align = 0 THEN base
    ELSE ((base + (required_align - 1)) \div required_align) * required_align

AllocSize(size) ==
    IF next_multiple_of(size, PAGE_SIZE) > PAGE_SIZE
    THEN next_multiple_of(size, PAGE_SIZE) ELSE PAGE_SIZE
RequiredAlign(align) == IF align > PAGE_SIZE THEN align ELSE PAGE_SIZE

\* the test of the search loop on entry i
Suitable(mb, i, alloc_size, required_align) ==
    /\ ~is_empty(mb.memory_region[i])
    /\ mb.memory_region[i].size >= alloc_size
    /\ mb.memory_region[i].size
          >= AlignedAddr(mb.memory_region[i].base, required_align)
               - mb.memory_region[i].base + alloc_size

\* find_free_region: [mb, ret], ret = -1 for None
memblock_find_free_region(mb, size, align) ==
    LET alloc_size == AllocSize(size)
        required_align == RequiredAlign(align)
        Remainder(m, region, aligned_addr) ==
            IF region.size - (aligned_addr - region.base) - alloc_size > 0
            THEN IF memblock_can_add(m)
                 THEN memblock_add(m, aligned_addr + alloc_size,
                                   region.size - (aligned_addr - region.base) - alloc_size)
                 ELSE MaxCountPrinted(m)
            ELSE m
        Gap(m, region, aligned_addr) ==
            Remainder(IF aligned_addr - region.base > 0
                      THEN IF memblock_can_add(m)
                           THEN memblock_add(m, region.base, aligned_addr - region.base)
                           ELSE MaxCountPrinted(m)
                      ELSE m,
                      region, aligned_addr)
        Reserve(m, region, aligned_addr) ==
            Gap(IF memblock_can_reserve(m)
                THEN memblock_reserved(m, aligned_addr, alloc_size)
                ELSE MaxCountPrinted(m),
                region, aligned_addr)
        Take(i) ==
            [mb |-> Reserve(memblock_remove(mb, "Available", i), mb.memory_region[i],
                            AlignedAddr(mb.memory_region[i].base, required_align)),
             ret |-> AlignedAddr(mb.memory_region[i].base, required_align)]
        Found(S) == IF S = {} THEN [mb |-> mb, ret |-> -1] ELSE Take(Min(S))
    IN IF mb.memory_count = 0 \/ size = 0 THEN [mb |-> mb, ret |-> -1]
       ELSE Found({ i \in 0..(MAX_REGION - 1) : Suitable(mb, i, alloc_size, required_align) })

\* alloc: the address, or 0 for the null pointer
memblock_alloc(mb, size, align) ==
    LET Ptr(r) == [mb |-> r.mb, ret |-> IF r.ret = -1 THEN 0 ELSE r.ret]
    IN Ptr(memblock_find_free_region([mb EXCEPT !.printed = 0], size, align))

\* sort_regions: insertion sort of the first count entries by base.  An
\* entry moves left past the entries with a larger base only, so it ends
\* after the entries with a smaller base and after the earlier entries with
\* the same base.
SortedIndex(regions, count, i) ==
    Cardinality({ k \in 0..(count - 1) :
                    \/ regions[k].base < regions[i].base
                    \/ regions[k].base = regions[i].base /\ k < i })

SortFrom(regions, count) ==
    [j \in 0..(MAX_REGION - 1) |->
        IF j >= count THEN regions[j]
        ELSE regions[CHOOSE i \in 0..(count - 1) : SortedIndex(regions, count, i) = j]]

memblock_sort_regions(mb, region_type) ==
    IF region_type = "Reserved"
    THEN [mb EXCEPT !.reserved_region = SortFrom(mb.reserved_region, mb.reserved_count)]
    ELSE [mb EXCEPT !.memory_region = SortFrom(mb.memory_region, mb.memory_count)]

RECURSIVE Coalesce(_, _)
Coalesce(mb, i) ==
    IF mb.err # "" \/ i >= mb.memory_count - 1 THEN mb
    ELSE IF mb.memory_region[i].base + mb.memory_region[i].size
               = mb.memory_region[i + 1].base
         THEN Coalesce(memblock_remove(
                          [mb EXCEPT !.memory_region[i].size =
                                        mb.memory_region[i].size
                                          + mb.memory_region[i + 1].size],
                          "Available", i + 1), i)
         ELSE Coalesce(mb, i + 1)

memblock_coalesce_free_regions(mb) ==
    IF mb.memory_count = 0 THEN Fail(mb, "panic: memblock count underflow")
    ELSE Coalesce(memblock_sort_regions(mb, "Available"), 0)

\* dealloc: the first reserved entry with this base and at least this size
memblock_dealloc(mb, addr, size) ==
    LET Back(m, reserved) ==
            memblock_coalesce_free_regions(
                IF memblock_can_add(m) THEN memblock_add(m, reserved.base, reserved.size)
                ELSE MaxCountPrinted(m))
        Move(i) == Back(memblock_remove([mb EXCEPT !.printed = 0], "Reserved", i),
                        mb.reserved_region[i])
        Found(S) ==
            IF S = {}
            THEN Fail(mb, "panic: Attempted to deallocate memory not managed by this allocator")
            ELSE Move(Min(S))
    IN Found({ i \in 0..(MAX_REGION - 1) :
                 /\ mb.reserved_region[i].base = addr
                 /\ mb.reserved_region[i].size >= next_multiple_of(size, PAGE_SIZE) })

----------------------------------------------------------------------------
(* What the build and the machine fix.  Node<T> and Slab are repr(Rust):   *)
(* the compiler may order their fields as it likes; every field is one     *)
(* word.  Frames are not cleared before use, so a word never written holds *)
(* whatever the RAM held.                                                  *)

\* field order as declared, and one order the compiler might pick instead
Layouts ==
    { [node |-> [next |-> 0, prev |-> 1, element |-> 2],
       slab |-> [list |-> 0, cache |-> 3, base_vaddr |-> 4, objects_in_use |-> 5,
                 first_free_object |-> 6]],
      [node |-> [element |-> 0, next |-> 1, prev |-> 2],
       slab |-> [first_free_object |-> 0, objects_in_use |-> 1, cache |-> 2,
                 base_vaddr |-> 3, list |-> 4]] }

StaleWords == {0, 1}

\* dev profile: overflow checks and debug assertions on; release: both off
Envs ==
    { [overflow_checks |-> d, debug |-> d, node |-> l.node, slab |-> l.slab,
       garbage |-> g] :
        d \in BOOLEAN, l \in Layouts, g \in StaleWords }

NoRam == [a \in {} |-> 0]

NoBuddy == [base |-> 0, size |-> 0, min_block_size |-> PAGE_SIZE, max_order |-> 0,
            free_lists |-> [k \in 0..(MAX_ORDERS - 1) |-> EmptyList],
            map |-> {}, map_len |-> 0]

\* memory_init from the node pool on: the pool sized by the segment, Buddy
\* over [base, total), then the nine slab caches of order 0
memory_init(base, total) ==
    LET s0 == [ram |-> NoRam, buddy |-> NoBuddy,
               pool |-> NodePoolNew(NODE_POOL_VIRT_START, total \div PAGE_SIZE),
               caches |-> <<>>, err |-> ""]
        s1 == BuddyNew(s0, base, total)
    IN [s1 EXCEPT !.caches = [i \in 1..SLAB_CACHE_COUNT |-> SlabCacheNew(CACHE_SIZES[i], 0)]]

\* the caller's record of an operation, and of the one before it
Op(name, ptr, size, align, n) ==
    [op |-> name, ptr |-> ptr, size |-> size, align |-> align, n |-> n,
     virt |-> 0, prev_op |-> last.op, prev_ptr |-> last.ptr]

NoOp == [op |-> "init", ptr |-> 0, size |-> 0, align |-> 0, n |-> 0,
         virt |-> 0, prev_op |-> "", prev_ptr |-> 0]

Commit(st) ==
    /\ ram' = st.ram
    /\ buddy' = st.buddy
    /\ pool' = st.pool
    /\ caches' = st.caches
    /\ err' = st.err

----------------------------------------------------------------------------
(* The dynamic virtual-range allocator: one atomic word that only this     *)
(* function touches.                                                       *)

VIRT_START == -805306368
VIRT_SIZE == 134217728
VIRT_END == VIRT_START + VIRT_SIZE

\* a + b on 32-bit words, wrapping
WrapAdd(a, b) ==
    IF a >= 0 /\ b >= 0 /\ a > 2147483647 - b
    THEN (a - 2147483647 - 1) + (b - 2147483647 - 1)
    ELSE IF a < 0 /\ b < 0 /\ a < (-2147483647 - 1) - b
    THEN (a + 2147483647 + 1) + (b + 2147483647 + 1)
    ELSE a + b

\* a - b on 32-bit words, wrapping
WrapSub(a, b) ==
    IF b = -2147483647 - 1 THEN WrapAdd(a, b) ELSE WrapAdd(a, -b)

\* unsigned a + b leaves 32 bits: the wrapped sum is below a
UAddOverflows(a, b) == ULt(WrapAdd(a, b), a)

\* allocate_dynamic_virt_range(size) with the pointer at next; some = FALSE
\* is None; err is the panic of the checked build's arithmetic
allocate_dynamic_virt_range(next, size) ==
    IF UAddOverflows(size, PAGE_SIZE - 1) /\ env.overflow_checks
    THEN [next |-> next, some |-> FALSE, ret |-> 0,
          err |-> "panic: attempt to add with overflow"]
    ELSE
    LET rounded == PageBase(WrapAdd(size, PAGE_SIZE - 1))
        current_start == next
        advanced == WrapAdd(next, rounded)
    IN IF UAddOverflows(current_start, rounded)
       THEN [next |-> advanced, some |-> FALSE, ret |-> 0, err |-> ""]
       ELSE IF ULt(VIRT_END, advanced)
       THEN [next |-> WrapSub(advanced, rounded), some |-> FALSE, ret |-> 0, err |-> ""]
       ELSE [next |-> advanced, some |-> TRUE, ret |-> current_start, err |-> ""]

\* start-up has not begun
BootOff == [pc |-> "off", done |-> <<>>]

----------------------------------------------------------------------------
(* Locks.  Every Locked<T> and Mutex<T> is a spin lock: lock() loops until *)
(* the swap finds the lock free, and the guard releases it when dropped.   *)
(* An operation is written as the list of lock and unlock events its code  *)
(* performs, in order; where the code branches on data, each path is one   *)
(* list.                                                                   *)

Lock(l) == <<[do |-> "lock", lock |-> l]>>
Unlock(l) == <<[do |-> "unlock", lock |-> l]>>
\* a guard that lives for the length of body
Holding(l, body) == Lock(l) \o body \o Unlock(l)

\* _print_serial and _print
PrintSerial == Holding("SERIAL", <<>>)
PrintVga == Holding("WRITER", <<>>)

\* NodeAllocatorWrapper::allocate and ::deallocate, as used by push_back,
\* pop_back and Drop of a Box in the wrapper
NodeAllocate == Holding("NODE_POOL_ALLOCATOR", PrintSerial)
NodeDeallocate == Holding("NODE_POOL_ALLOCATOR", PrintSerial)

\* GlobalAlloc::dealloc of Locked<KernelAllocator>: the slab path
GlobalDeallocLocks == Holding("SLAB_CACHES", <<>>)

\* CursorMut::remove_current: the node goes back through Box<Node<T>>, whose
\* allocator is the global one
RemoveCurrentLocks == GlobalDeallocLocks

\* BuddyAllocator::alloc: nothing free, a block of the order asked for, or
\* a larger block split once
BuddyAllocLocks ==
    { <<>>, NodeDeallocate, NodeDeallocate \o NodeAllocate }

\* BuddyAllocator::dealloc: no free buddy, or one buddy taken off its list
BuddyDeallocLocks ==
    { NodeAllocate, RemoveCurrentLocks \o NodeAllocate }

\* GlobalAlloc::alloc of Locked<KernelAllocator>: an object of a listed
\* slab, or a new slab from Buddy
GlobalAllocLocks ==
    { Holding("SLAB_CACHES", <<>>) }
      \cup { Holding("SLAB_CACHES",
                     Holding("BUDDY_PAGE_ALLOCATOR", b) \o PrintSerial) :
               b \in BuddyAllocLocks }

\* MemBlockAllocator::alloc on EARLY_PHYSICAL_ALLOCATOR
MemblockAllocLocks == Holding("EARLY_PHYSICAL_ALLOCATOR", PrintSerial \o PrintSerial)

\* BuddyAllocator::new inside BUDDY_PAGE_ALLOCATOR.lock().get_or_init
BuddyNewLocks ==
    Holding("BUDDY_PAGE_ALLOCATOR",
            Holding("G_SEGMENTS", <<>>) \o MemblockAllocLocks \o NodeAllocate)

\* FRAME_ALLOCATOR.lock()...init(), .allocate_frame(), .deallocate_frame()
FrameInitLocks ==
    Holding("FRAME_ALLOCATOR",
            Holding("FRAME_BITMAP", Holding("EARLY_PHYSICAL_ALLOCATOR", <<>>)))
AllocateFrameLocks == Holding("FRAME_ALLOCATOR", Holding("FRAME_BITMAP", <<>>))
DeallocateFrameLocks == Holding("FRAME_ALLOCATOR", Holding("FRAME_BITMAP", <<>>))

\* map_page: into a present page table, or with a new one
MapPageLocks == { <<>>, AllocateFrameLocks }
\* unmap_page: the page's frame, then the table's if it became empty
UnmapPageLocks == { DeallocateFrameLocks, DeallocateFrameLocks \o DeallocateFrameLocks }

\* memory_init, with one page of node pool to map
MemoryInitLocks ==
    Holding("EARLY_PHYSICAL_ALLOCATOR", Holding("G_SEGMENTS", <<>>))
      \o Holding("FRAME_ALLOCATOR", <<>>)
      \o FrameInitLocks
      \o Holding("G_SEGMENTS", <<>>)
      \o MemblockAllocLocks
      \o AllocateFrameLocks \o AllocateFrameLocks
      \o Holding("NODE_POOL_ALLOCATOR", MemblockAllocLocks \o PrintSerial)
      \o Holding("EARLY_PHYSICAL_ALLOCATOR", <<>>)
      \o BuddyNewLocks
      \o Holding("SLAB_CACHES", <<>>)
      \o Holding("EARLY_PHYSICAL_ALLOCATOR", <<>>)
      \o Holding("EARLY_PHYSICAL_ALLOCATOR", <<>>)

\* the operations of the memory subsystem and the paths through each
Operations ==
    [global_alloc |-> GlobalAllocLocks,
     global_dealloc |-> { GlobalDeallocLocks },
     buddy_alloc |-> { Holding("BUDDY_PAGE_ALLOCATOR", b) : b \in BuddyAllocLocks },
     buddy_dealloc |-> { Holding("BUDDY_PAGE_ALLOCATOR", b) : b \in BuddyDeallocLocks },
     buddy_new |-> { BuddyNewLocks },
     frame_init |-> { FrameInitLocks },
     allocate_frame |-> { AllocateFrameLocks },
     deallocate_frame |-> { DeallocateFrameLocks },
     map_page |-> MapPageLocks,
     unmap_page |-> UnmapPageLocks,
     memory_init |-> { MemoryInitLocks }]

\* exception handlers: one that returns and one that halts
Return == <<[do |-> "iret", lock |-> ""]>>
Handlers ==
    [breakpoint_handler |-> PrintVga \o PrintSerial \o Return,
     page_fault |-> PrintVga \o PrintVga \o PrintVga \o PrintVga \o PrintSerial \o Return]

\* the processor: the locks it holds, oldest first, what is left to do of
\* the operation in progress, and the handler running, if any
CpuIdle == [held |-> <<>>, todo |-> <<>>, handler |-> "", handled |-> 0]

----------------------------------------------------------------------------
(* The Buddy allocator driven by a caller that frees what it was given,    *)
(* with the layout it asked for.                                           *)

BuddyBases == {1048576, 1052672}
BuddyBlockCounts == {4, 6, 32}
BuddyLayouts ==
    { [size |-> PAGE_SIZE, align |-> PAGE_SIZE],
      [size |-> 2 * PAGE_SIZE, align |-> PAGE_SIZE],
      [size |-> PAGE_SIZE, align |-> 4 * PAGE_SIZE] }

BuddyInit ==
    /\ env \in Envs
    /\ \E base \in BuddyBases, n \in BuddyBlockCounts :
          LET st == memory_init(base, base + n * PAGE_SIZE)
          IN /\ ram = st.ram
             /\ buddy = st.buddy
             /\ pool = st.pool
             /\ caches = st.caches
             /\ err = st.err
    /\ frames = FrameAllocatorNew
    /\ pmem = NoRam
    /\ live = {}
    /\ last = NoOp
    /\ cpu = CpuIdle
    /\ next_free_virt = VIRT_START
    /\ boot = BootOff
    /\ memblock = MemBlockAllocatorNew

BuddyAllocStep ==
    \E l \in BuddyLayouts :
       /\ err = ""
       /\ last.n < MaxOps
       /\ Cardinality(live) < MaxLive
       /\ LET r == buddy_alloc(St, l.size, l.align)
          IN /\ Commit(r.st)
             /\ live' = IF r.st.err = "" /\ r.ret # 0
                        THEN live \cup {[ptr |-> r.ret, size |-> l.size, align |-> l.align]}
                        ELSE live
             /\ last' = Op("alloc", r.ret, l.size, l.align, last.n + 1)
       /\ UNCHANGED <<frames, pmem, env, next_free_virt, boot, cpu, memblock>>

BuddyDeallocStep ==
    \E a \in live :
       /\ err = ""
       /\ last.n < MaxOps
       /\ Commit(buddy_dealloc(St, a.ptr, a.size, a.align))
       /\ live' = live \ {a}
       /\ last' = Op("dealloc", a.ptr, a.size, a.align, last.n + 1)
       /\ UNCHANGED <<frames, pmem, env, next_free_virt, boot, cpu, memblock>>

BuddyNext == BuddyAllocStep \/ BuddyDeallocStep

SpecBuddy == BuddyInit /\ [][BuddyNext]_vars

\* the elements of free list k in list order, as far as the links can be followed
RECURSIVE FreeWalk(_, _)
FreeWalk(current, seen) ==
    IF current = 0 \/ ~Accessible(St, current) \/ current \in seen THEN <<>>
    ELSE <<Read(St, NodeF(current, "element"))>>
         \o FreeWalk(Read(St, NodeF(current, "next")), seen \cup {current})

FreeBlocks(k) == FreeWalk(buddy.free_lists[k].head, {})

\* every free block as <<order, position in its list, address>>
FreeEntries ==
    UNION { { <<k, i, FreeBlocks(k)[i]>> : i \in 1..Len(FreeBlocks(k)) } :
            k \in 0..(MAX_ORDERS - 1) }

\* the free lists and the bitmap as BuddyAllocator::new left them
BuddyFresh ==
    /\ buddy.map = {}
    /\ \A k \in 0..(MAX_ORDERS - 1) :
          FreeBlocks(k) = IF k = buddy.max_order THEN <<buddy.base>> ELSE <<>>

\* the minimum blocks of the managed range, by index
TrackedBlocks == 0..(buddy.size \div buddy.min_block_size - 1)

\* minimum block i lies inside a block that is on a free list
Covered(i) ==
    \E e \in FreeEntries :
        /\ e[3] <= buddy.base + i * buddy.min_block_size
        /\ buddy.base + (i + 1) * buddy.min_block_size <= e[3] + BlockSize(buddy, e[1])

\* C1: Buddy conservation.  Every run of alloc and dealloc calls in which
\* each alloc is matched by a dealloc of the same pointer and layout runs to
\* its end, and once nothing is outstanding the free lists and the bitmap
\* are those of the freshly constructed allocator: one block of max_order
\* at base, every bit clear.
C1_BuddyConservation ==
    /\ err = ""
    /\ live = {} => BuddyFresh

\* C1, the case the claim singles out: alloc(2 pages) from the fresh state
\* returned a block and the matching dealloc has run.
C1_PairDone ==
    /\ last.op = "dealloc" /\ last.prev_op = "alloc"
    /\ last.ptr = buddy.base /\ last.prev_ptr = buddy.base
    /\ last.size = 2 * PAGE_SIZE
    /\ last.n = 2

\* [addr, addr + (PAGE_SIZE << k)) of two free entries intersect
Overlap(e, f) ==
    /\ ULt(e[3], f[3] + BlockSize(buddy, f[1]))
    /\ ULt(f[3], e[3] + BlockSize(buddy, e[1]))

\* C6: Buddy no overlap.  While the kernel runs, no two entries of the free
\* lists (same or different order) overlap as physical ranges, and no block
\* is listed twice.
C6_BuddyNoOverlap ==
    err = "" => \A e, f \in FreeEntries : e # f => ~Overlap(e, f)

\* C6: two blocks are free on the lists at once after a dealloc.
C6_TwoFree ==
    /\ err = ""
    /\ last.op = "dealloc"
    /\ Cardinality(FreeEntries) >= 2

\* the order of a request, as find_free_block computes it
RequestOrder(size, align) == OrderFor(buddy, Max({size, align}), 0)

\* C9: Buddy alignment.  A pointer returned by alloc for a request of order
\* k is a multiple of PAGE_SIZE << k as an absolute address.
C9_BuddyAlignment ==
    (last.op = "alloc" /\ last.ptr # 0 /\ err = "")
        => last.ptr % (PAGE_SIZE * Pow2(RequestOrder(last.size, last.align))) = 0

\* C9: an alloc of two pages has returned a block.
C9_TwoPagesGiven ==
    /\ err = ""
    /\ last.op = "alloc"
    /\ last.size = 2 * PAGE_SIZE
    /\ last.ptr # 0

\* C11: Buddy bitmap and free lists agree.  While the allocator runs, the
\* bit of a minimum block of the managed range is set exactly when the
\* block lies inside no block of any free list.
C11_BitmapMatchesFreeLists ==
    err = "" => \A i \in TrackedBlocks : (i \in buddy.map) <=> ~Covered(i)

\* C11: a block was handed out, so some bits are set and some are clear.
C11_BlockGiven ==
    /\ err = "" /\ last.op = "alloc" /\ last.ptr # 0
    /\ buddy.map # {} /\ \E i \in TrackedBlocks : i \notin buddy.map

----------------------------------------------------------------------------
(* Buddy with a caller that breaks dealloc's contract: the block it has    *)
(* just given back is given back a second time with the same layout.       *)

BuddyDeallocAgainStep ==
    /\ err = ""
    /\ last.op = "dealloc"
    /\ last.n < MaxOps
    /\ Commit(buddy_dealloc(St, last.ptr, last.size, last.align))
    /\ last' = Op("dealloc_again", last.ptr, last.size, last.align, last.n + 1)
    /\ UNCHANGED <<live, frames, pmem, env, next_free_virt, boot, cpu, memblock>>

BuddyMisuseNext == BuddyAllocStep \/ BuddyDeallocStep \/ BuddyDeallocAgainStep

SpecBuddyMisuse == BuddyInit /\ [][BuddyMisuseNext]_vars

\* C22: Buddy double-free detection.  A dealloc of a block that is already
\* free panics and pushes nothing: the free lists hold after it what they
\* held before it.
C22_DoubleFreeDetected ==
    [][last'.op = "dealloc_again" => (err' # "" /\ FreeEntries' = FreeEntries)]_vars

\* C22: a block was given back twice in a row and the kernel went on.
C22_SecondDeallocReturned ==
    /\ last.op = "dealloc_again" /\ last.prev_op = "dealloc" /\ last.prev_ptr = last.ptr
    /\ err = ""

----------------------------------------------------------------------------
(* One SlabCache driven directly: alloc and dealloc of objects of the      *)
(* cache's size, each object freed at most once.                           *)

\* (object size, slab order) pairs SlabCache::new accepts: 3 and 1 objects per slab
SlabConfigs == { [size |-> 1024, order |-> 0], [size |-> 2048, order |-> 0] }

SlabPages == 8

SlabInit ==
    /\ env \in Envs
    /\ \E c \in SlabConfigs :
          LET st == memory_init(1048576, 1048576 + SlabPages * PAGE_SIZE)
          IN /\ ram = st.ram
             /\ buddy = st.buddy
             /\ pool = st.pool
             /\ caches = <<SlabCacheNew(c.size, c.order)>>
             /\ err = st.err
    /\ frames = FrameAllocatorNew
    /\ pmem = NoRam
    /\ live = {}
    /\ last = NoOp
    /\ cpu = CpuIdle
    /\ next_free_virt = VIRT_START
    /\ boot = BootOff
    /\ memblock = MemBlockAllocatorNew

SlabAllocStep ==
    /\ err = ""
    /\ last.n < MaxSlabOps
    /\ Cardinality(live) < MaxObjs
    /\ LET size == caches[1].object_size
           r == slab_alloc(St, 1, size)
       IN /\ Commit(r.st)
          /\ live' = IF r.st.err = "" /\ r.ret # 0
                     THEN live \cup {[ptr |-> r.ret, size |-> size, align |-> 4]}
                     ELSE live
          /\ last' = Op("alloc", r.ret, size, 4, last.n + 1)
    /\ UNCHANGED <<frames, pmem, env, next_free_virt, boot, cpu, memblock>>

SlabDeallocStep ==
    \E a \in live :
       /\ err = ""
       /\ last.n < MaxSlabOps
       /\ Commit(slab_dealloc(St, 1, a.ptr, a.size))
       /\ live' = live \ {a}
       /\ last' = Op("dealloc", a.ptr, a.size, a.align, last.n + 1)
       /\ UNCHANGED <<frames, pmem, env, next_free_virt, boot, cpu, memblock>>

SlabNext == SlabAllocStep \/ SlabDeallocStep

SpecSlab == SlabInit /\ [][SlabNext]_vars

\* the slabs of list ln of cache ci in list order, as far as the links can be followed
RECURSIVE SlabWalk(_, _)
SlabWalk(node, seen) ==
    IF node = 0 \/ ~Accessible(St, node) \/ node \in seen THEN <<>>
    ELSE <<Read(St, INodeF(node, "container"))>>
         \o SlabWalk(Read(St, INodeF(node, "next")), seen \cup {node})

ListSlabs(ci, ln) == SlabWalk(caches[ci][ln].head, {})

\* how often slab s occurs on list ln
Occurs(ci, ln, s) == Cardinality({i \in 1..Len(ListSlabs(ci, ln)) : ListSlabs(ci, ln)[i] = s})

SlabSize(ci) == Pow2(caches[ci].slab_order) * PAGE_SIZE

\* every slab cache ci ever built: the Buddy blocks handed to it
AllSlabs(ci) ==
    { a \in {buddy.base + i * PAGE_SIZE : i \in buddy.map} :
        (a - buddy.base) % SlabSize(ci) = 0 }

InUse(s) == Read(St, SlabF(s, "objects_in_use"))

\* the slab the next alloc takes its object from; 0 when it will build a new one
PickedSlab(ci) ==
    LET c == caches[ci]
        node == IF c.slabs_partial.head # 0 THEN c.slabs_partial.head
                ELSE c.slabs_free.head
    IN IF node = 0 THEN 0 ELSE Read(St, INodeF(node, "container"))

SlabOf(ci, p) == p - (p % SlabSize(ci))

\* C2 as stated: Slab LIFO.  In every state of a slab cache, an alloc that
\* directly follows dealloc(p) returns p.
C2_SlabLifoAnyState ==
    [][(last.op = "dealloc" /\ last'.op = "alloc") => last'.ptr = last.ptr]_vars

\* C2: Slab LIFO within the slab alloc draws from.  An alloc that directly
\* follows dealloc(p) returns p whenever the slab of p is the one alloc
\* takes: the head of partial, or the head of free when partial is empty.
C2_SlabLifoPickedSlab ==
    [][(last.op = "dealloc" /\ last'.op = "alloc" /\ PickedSlab(1) = SlabOf(1, last.ptr))
          => last'.ptr = last.ptr]_vars

\* C2: a dealloc directly followed by an alloc gave the pointer back while
\* the cache had more than one slab.
C2_FreedThenReturned ==
    /\ err = ""
    /\ last.op = "alloc" /\ last.prev_op = "dealloc"
    /\ last.ptr = last.prev_ptr /\ last.ptr # 0
    /\ caches[1].objects_per_slab > 1
    /\ Cardinality(AllSlabs(1)) >= 2

\* C10: Slab cache list invariant.  While the kernel runs every slab of the
\* cache is on exactly one of full, partial and free; a slab on full has
\* objects_in_use = objects_per_slab, a slab on free has objects_in_use = 0
\* and a slab on partial has 0 < objects_in_use < objects_per_slab.
C10_SlabListInvariant ==
    err = "" =>
      \A s \in AllSlabs(1) :
         /\ Occurs(1, "slabs_full", s) + Occurs(1, "slabs_partial", s)
              + Occurs(1, "slabs_free", s) = 1
         /\ Occurs(1, "slabs_full", s) = 1 => InUse(s) = caches[1].objects_per_slab
         /\ Occurs(1, "slabs_free", s) = 1 => InUse(s) = 0
         /\ Occurs(1, "slabs_partial", s) = 1
              => (0 < InUse(s) /\ InUse(s) < caches[1].objects_per_slab)

\* C10: a cache with one object per slab has handed out an object and taken
\* it back.
C10_OneObjectSlabUsed ==
    /\ caches[1].objects_per_slab = 1
    /\ last.op = "dealloc"
    /\ AllSlabs(1) # {}

----------------------------------------------------------------------------
(* The global heap after memory_init: alloc and dealloc through GlobalAlloc *)
(* with the layout the caller allocated with.                              *)

HeapSizes == {0, 1, 17, 1024, 1025}

HeapPages == 8

HeapInit ==
    /\ env \in Envs
    /\ LET st == memory_init(1048576, 1048576 + HeapPages * PAGE_SIZE)
       IN /\ ram = st.ram
          /\ buddy = st.buddy
          /\ pool = st.pool
          /\ caches = st.caches
          /\ err = st.err
    /\ frames = FrameAllocatorNew
    /\ pmem = NoRam
    /\ live = {}
    /\ last = NoOp
    /\ cpu = CpuIdle
    /\ next_free_virt = VIRT_START
    /\ boot = BootOff
    /\ memblock = MemBlockAllocatorNew

HeapAllocStep ==
    \E size \in HeapSizes :
       /\ err = ""
       /\ last.n < MaxHeapOps
       /\ Cardinality(live) < MaxLive
       /\ LET r == global_alloc(St, size)
          IN /\ Commit(r.st)
             /\ live' = IF r.st.err = "" /\ r.ret # 0
                        THEN live \cup {[ptr |-> r.ret, size |-> size, align |-> 1]}
                        ELSE live
             /\ last' = Op("alloc", r.ret, size, 1, last.n + 1)
       /\ UNCHANGED <<frames, pmem, env, next_free_virt, boot, cpu, memblock>>

HeapDeallocStep ==
    \E a \in live :
       /\ err = ""
       /\ last.n < MaxHeapOps
       /\ Commit(global_dealloc(St, a.ptr, a.size))
       /\ live' = live \ {a}
       /\ last' = Op("dealloc", a.ptr, a.size, a.align, last.n + 1)
       /\ UNCHANGED <<frames, pmem, env, next_free_virt, boot, cpu, memblock>>

HeapNext == HeapAllocStep \/ HeapDeallocStep

SpecHeap == HeapInit /\ [][HeapNext]_vars

\* C5: the global alloc is total.  Every alloc call completes without a
\* panic, and a request above 1024 bytes returns null.
C5_AllocTotal ==
    last.op = "alloc" => (err = "" /\ (last.size > 1024 => last.ptr = 0))

\* C5: an alloc of more than 1024 bytes has been called.
C5_LargeRequested ==
    last.op = "alloc" /\ last.size > 1024

\* the index of the smallest size class that holds size bytes
SmallestClass(size) ==
    CHOOSE i \in 1..SLAB_CACHE_COUNT :
        /\ CACHE_SIZES[i] >= size
        /\ \A j \in 1..SLAB_CACHE_COUNT : CACHE_SIZES[j] >= size => CACHE_SIZES[i] <= CACHE_SIZES[j]

\* slab s is on one of the three lists of cache ci
OnCache(ci, s) ==
    Occurs(ci, "slabs_full", s) + Occurs(ci, "slabs_partial", s)
        + Occurs(ci, "slabs_free", s) > 0

\* C8: slab class selection.  For 1 <= size <= 1024 the object alloc hands
\* out lies in a slab of the cache whose object_size is the smallest class
\* >= size, and dealloc with the same layout works on that cache: the slab
\* is on that cache's lists and on no other cache's.  The index both calls
\* compute depends on the size alone; it is compared with the smallest
\* class for every size from 1 to 1024 once, after the first call.
C8_ClassSelection ==
    (err = "" /\ last.op \in {"alloc", "dealloc"} /\ last.ptr # 0
        /\ last.size >= 1 /\ last.size <= 1024)
    => LET s == PageBase(last.ptr)
           k == SmallestClass(last.size)
       IN /\ last.n = 1 => \A size \in 1..1024 : position(size) = SmallestClass(size)
          /\ Read(St, SlabF(s, "cache")) = k
          /\ caches[k].object_size = CACHE_SIZES[k]
          /\ OnCache(k, s)
          /\ \A j \in 1..SLAB_CACHE_COUNT : j # k => ~OnCache(j, s)
          /\ last.op = "dealloc" => Read(St, SlabF(s, "first_free_object")) = last.ptr

\* C8: a request that is not itself a class size was served and given back.
C8_RoundedUpAndFreed ==
    /\ err = ""
    /\ last.op = "dealloc" /\ last.size = 17
    /\ Read(St, SlabF(PageBase(last.ptr), "cache")) = 4
    /\ OnCache(4, PageBase(last.ptr))

----------------------------------------------------------------------------
(* The frame allocator after init, called with frames it handed out and    *)
(* with frames it did not.                                                 *)

\* one available region of 67 frames at 1 MiB; the kernel image with the
\* bitmap in it takes the first 62, which leaves frames 318..322: two in
\* bitmap word 4 and three in word 5
FrameRegions == { [base |-> 1048576, size |-> 67 * PAGE_SIZE] }
KernelStart == 256 * PAGE_SIZE
KernelEnd == 1048576 + 62 * PAGE_SIZE
BitmapPhysAddr == 1048576 + 8 * PAGE_SIZE

\* frames a caller may pass that allocate_frame never returned: a kernel
\* frame, and a frame outside every region
StrayFrames == { 1048576 + 61 * PAGE_SIZE, 400 * PAGE_SIZE }

\* neither nodes, slabs nor checked arithmetic take part here
PlainEnvs == { e \in Envs : e.debug /\ e.slab.list = 0 }

FrameInit ==
    /\ env \in PlainEnvs
    /\ frames = frame_init(FrameAllocatorNew, FrameRegions, KernelStart, KernelEnd,
                           BitmapPhysAddr)
    /\ ram = NoRam
    /\ buddy = NoBuddy
    /\ pool = NodePoolNew(NODE_POOL_VIRT_START, 1)
    /\ caches = <<>>
    /\ err = ""
    /\ pmem = NoRam
    /\ live = {}
    /\ last = NoOp
    /\ cpu = CpuIdle
    /\ next_free_virt = VIRT_START
    /\ boot = BootOff
    /\ memblock = MemBlockAllocatorNew

FrameAllocStep ==
    /\ err = ""
    /\ last.n < MaxFrameOps
    /\ Cardinality(live) < MaxFrames
    /\ LET r == allocate_frame(frames)
       IN /\ frames' = r.fa
          /\ live' = IF r.ret # -1 THEN live \cup {r.ret} ELSE live
          /\ last' = Op("allocate_frame", r.ret, 0, 0, last.n + 1)
    /\ UNCHANGED <<ram, buddy, pool, caches, err, pmem, env, next_free_virt, boot, cpu, memblock>>

\* deallocate_frame of a frame the caller holds
FrameDeallocStep ==
    \E f \in live :
       /\ err = ""
       /\ last.n < MaxFrameOps
       /\ frames' = deallocate_frame(frames, f)
       /\ live' = live \ {f}
       /\ last' = Op("deallocate_frame", f, 0, 0, last.n + 1)
       /\ UNCHANGED <<ram, buddy, pool, caches, err, pmem, env, next_free_virt, boot, cpu, memblock>>

\* deallocate_frame of a frame the caller does not hold: freed before, or
\* never handed out
FrameStrayDeallocStep ==
    \E f \in (StrayFrames \cup {g * PAGE_SIZE : g \in frames.free}) \ live :
       /\ err = ""
       /\ last.n < MaxFrameOps
       /\ frames' = deallocate_frame(frames, f)
       /\ live' = live
       /\ last' = Op("deallocate_stray", f, 0, 0, last.n + 1)
       /\ UNCHANGED <<ram, buddy, pool, caches, err, pmem, env, next_free_virt, boot, cpu, memblock>>

FrameNext == FrameAllocStep \/ FrameDeallocStep \/ FrameStrayDeallocStep

SpecFrame == FrameInit /\ [][FrameNext]_vars

\* C3: frame allocator uniqueness.  allocate_frame never returns a frame
\* that was returned earlier and not deallocated since; two allocate_frame
\* calls in a row return distinct frames.
C3_FrameUniqueness ==
    [][(last'.op = "allocate_frame" /\ last'.ptr # -1)
          => /\ last'.ptr \notin live
             /\ last.op = "allocate_frame" => last'.ptr # last.ptr]_vars

\* C3: two allocate_frame calls in a row both returned a frame.
C3_TwoInARow ==
    /\ last.op = "allocate_frame" /\ last.prev_op = "allocate_frame"
    /\ last.ptr # -1 /\ last.prev_ptr # -1

\* C4 as stated: frame reuse order.  In every bitmap state,
\* deallocate_frame(f) of an allocated frame followed directly by
\* allocate_frame returns f.
C4_FreedFrameIsNext ==
    [][(last.op = "deallocate_frame" /\ last'.op = "allocate_frame")
          => last'.ptr = last.ptr]_vars

\* C4: frame reuse, lowest first.  deallocate_frame(f) of an allocated
\* frame followed directly by allocate_frame returns the lowest-numbered
\* free frame; that is f exactly when no frame below f is free.
C4_FreedFrameIsNextIfLowest ==
    [][(last.op = "deallocate_frame" /\ last'.op = "allocate_frame")
          => /\ last'.ptr = Min(frames.free) * PAGE_SIZE
             /\ last'.ptr = last.ptr
                  <=> \A g \in frames.free : g * PAGE_SIZE >= last.ptr]_vars

\* C4: a frame of a word below the hint was deallocated and the next
\* allocate_frame returned it.
C4_FreedBelowHintReturned ==
    /\ last.op = "allocate_frame" /\ last.prev_op = "deallocate_frame"
    /\ last.ptr = last.prev_ptr
    /\ \E g \in live : g \div (PAGE_SIZE * BITMAP_ENTRY_SIZE_BITS)
                          > last.ptr \div (PAGE_SIZE * BITMAP_ENTRY_SIZE_BITS)

\* frames init marks used after clearing the available regions: the kernel
\* image, and the bitmap that lies in it
ProtectedFrames ==
    (KernelStart \div PAGE_SIZE)..((KernelEnd + PAGE_SIZE - 1) \div PAGE_SIZE - 1)
        \cup (BitmapPhysAddr \div PAGE_SIZE)
               ..((BitmapPhysAddr + BITMAP_ARRAY_SIZE * 8 + PAGE_SIZE - 1) \div PAGE_SIZE - 1)

\* C12: frame bitmap protection.  After init, whatever frames are passed
\* to allocate_frame and deallocate_frame, the bit of every frame of the
\* kernel image and of the bitmap stays 1, and allocate_frame never returns
\* such a frame.
C12_ProtectedFramesStayUsed ==
    /\ \A g \in ProtectedFrames : g \notin frames.free
    /\ last.op = "allocate_frame" => last.ptr \div PAGE_SIZE \notin ProtectedFrames

\* C12: a frame was deallocated and allocate_frame then returned a frame.
C12_AllocatedAfterDealloc ==
    /\ last.op = "allocate_frame" /\ last.ptr # -1
    /\ last.prev_op \in {"deallocate_frame", "deallocate_stray"}

\* the frame index deallocate_frame computes from the address
FrameOf(addr) == UDiv(addr, PAGE_SIZE)

\* C23: frame double free is refused.  deallocate_frame of a frame whose
\* bit is already 0, or whose index is outside the bitmap, changes neither
\* the bitmap nor the search hint, so the allocate_frame calls after it
\* return what they would have returned without it.
C23_DoubleFreeRefused ==
    [][(/\ last'.op \in {"deallocate_frame", "deallocate_stray"}
        /\ (FrameOf(last'.ptr) \in frames.free \/ FrameOf(last'.ptr) >= TOTAL_FRAMES))
          => (/\ frames' = frames
              /\ allocate_frame(frames') = allocate_frame(frames)
              /\ err' = "")]_vars

\* C23: a frame was deallocated, deallocated again, and frames are still
\* held by the caller.
C23_FreedTwice ==
    /\ last.op = "deallocate_stray" /\ last.prev_op = "deallocate_frame"
    /\ last.ptr = last.prev_ptr
    /\ FrameOf(last.ptr) \in frames.free
    /\ live # {}

----------------------------------------------------------------------------
(* The paging layer over the frame allocator: map_page and unmap_page with *)
(* any page-aligned arguments.                                             *)

\* the page directory of the boot stub, a frame of the kernel image: the
\* kernel's two 4 MiB pages at 0xC0000000 and 0xC0400000, nothing else
PageDirectoryFrame == 1048576 + 61 * PAGE_SIZE
BootPageDirectory ==
    [fill |-> WRITABLE,
     ent |-> (768 :> PRESENT + WRITABLE + PAGE_SIZE_EXT)
             @@ (769 :> PAGE_SIZE_4MIB + PRESENT + WRITABLE + PAGE_SIZE_EXT)]

\* physical arguments: a free frame, a frame of the kernel image (the page
\* directory's), a frame no region holds
PhysArgs == { 1048576 + 66 * PAGE_SIZE, PageDirectoryFrame, 400 * PAGE_SIZE }

\* virtual arguments: 0xE0000000 and 0xE0001000 share a page table,
\* 0xE0380000 has the same index in the directory and in its table, and
\* 0xC0000000 lies in a 4 MiB page
VirtArgs == { -536870912, -536866816, -533200896, KERNEL_OFFSET }

Offsets == { 0, 1, PAGE_SIZE - 1 }

Ps == [fa |-> frames, pm |-> pmem, err |-> err]

PagingInit ==
    /\ env \in PlainEnvs
    /\ frames = frame_init(FrameAllocatorNew, FrameRegions, KernelStart, KernelEnd,
                           BitmapPhysAddr)
    /\ pmem = [cr3 |-> PageDirectoryFrame,
               tables |-> (PageDirectoryFrame :> BootPageDirectory)]
    /\ ram = NoRam
    /\ buddy = NoBuddy
    /\ pool = NodePoolNew(NODE_POOL_VIRT_START, 1)
    /\ caches = <<>>
    /\ err = ""
    /\ live = {}
    /\ last = NoOp
    /\ cpu = CpuIdle
    /\ next_free_virt = VIRT_START
    /\ boot = BootOff
    /\ memblock = MemBlockAllocatorNew

PageOp(name, phys, virt, n) == [Op(name, phys, 0, 0, n) EXCEPT !.virt = virt]

MapPageStep ==
    \E p \in PhysArgs, v \in VirtArgs :
       /\ err = ""
       /\ last.n < MaxPageOps
       /\ LET r == map_page(Ps, p, v, PRESENT + WRITABLE)
          IN /\ frames' = r.fa
             /\ pmem' = r.pm
             /\ err' = r.err
             /\ live' = IF r.err = "" THEN live \cup {v} ELSE live
       /\ last' = PageOp("map_page", p, v, last.n + 1)
       /\ UNCHANGED <<ram, buddy, pool, caches, env, next_free_virt, boot, cpu, memblock>>

UnmapPageStep ==
    \E v \in VirtArgs :
       /\ err = ""
       /\ last.n < MaxPageOps
       /\ LET r == unmap_page(Ps, v)
          IN /\ frames' = r.fa
             /\ pmem' = r.pm
             /\ err' = r.err
             /\ live' = IF r.err = "" THEN live \ {v} ELSE live
       /\ last' = [PageOp("unmap_page", 0, v, last.n + 1) EXCEPT !.prev_ptr = last.virt]
       /\ UNCHANGED <<ram, buddy, pool, caches, env, next_free_virt, boot, cpu, memblock>>

PagingNext == MapPageStep \/ UnmapPageStep

SpecPaging == PagingInit /\ [][PagingNext]_vars

\* C7: paging round trip.  After map_page(p, v, PRESENT|WRITABLE) returns,
\* translate(v + o) is Some(p + o) for every offset o below 4096; after an
\* unmap_page(v) that follows it, translate(v) is None.
C7_PagingRoundTrip ==
    /\ (last.op = "map_page" /\ err = "")
          => \A o \in Offsets : translate(pmem, last.virt + o) = Some(last.ptr + o)
    /\ (last.op = "unmap_page" /\ last.prev_op = "map_page"
          /\ last.prev_ptr = last.virt /\ err = "")
          => translate(pmem, last.virt) = None

\* C7: a page was mapped into a table that map_page allocated, and then
\* unmapped again.
C7_MappedThenUnmapped ==
    /\ last.op = "unmap_page" /\ last.prev_op = "map_page"
    /\ last.prev_ptr = last.virt /\ err = ""


\* the entries unmap_page(v) reads on its way to the page: the PDE of v, and
\* the PTE of v in the table that PDE names
PdeOf(pm, v) == TableRead(pm, phys_to_virt(pm.cr3), UDiv(v, PAGE_SIZE_4MIB))
PteOf(pm, v) ==
    TableRead(pm, phys_to_virt(AddrOf(PdeOf(pm, v))), UDiv(v, PAGE_SIZE) % 1024)

\* C18: unmap_page reclamation.  An unmap_page(v) that returns has cleared
\* the PTE of v and the bit of the frame it mapped; if no entry of the page
\* table is present any more, the bit of the table's frame is clear and the
\* PDE is zero.  After map_page(F, v, PRESENT|WRITABLE) directly followed by
\* unmap_page(v), F is free, and allocate_frame on this allocator with every
\* other frame used returns F.
C18_UnmapReclaims ==
    [][(last'.op = "unmap_page" /\ err' = "") =>
          /\ translate(pmem', last'.virt) = None
          /\ FrameOf(AddrOf(PteOf(pmem, last'.virt))) \in frames'.free
          /\ page_table_is_empty(pmem', phys_to_virt(AddrOf(PdeOf(pmem, last'.virt))))
                => /\ FrameOf(AddrOf(PdeOf(pmem, last'.virt))) \in frames'.free
                   /\ PdeOf(pmem', last'.virt) = 0
          /\ (last.op = "map_page" /\ last.virt = last'.virt)
                => /\ FrameOf(last.ptr) \in frames'.free
                   /\ allocate_frame([frames' EXCEPT !.free = {FrameOf(last.ptr)}]).ret
                         = last.ptr]_vars

\* C18: a page was mapped and unmapped again while another page of the same
\* table stayed mapped, and the frame it mapped is free.
C18_UnmappedFrameFree ==
    /\ last.op = "unmap_page" /\ last.prev_op = "map_page"
    /\ last.prev_ptr = last.virt /\ err = ""
    /\ Present(PdeOf(pmem, last.virt))
    /\ frames.free # {}

\* C19: paging conflicts are fatal and free of side effects.  map_page on
\* an address whose PDE is present with the 4 MiB bit panics; unmap_page
\* panics when the PDE is not present, when it is a 4 MiB page and when the
\* PTE is not present; in each case the directory, the tables and the frame
\* bitmap are as they were before the call.
C19_ConflictsFatal ==
    [][/\ (/\ last'.op = "map_page"
           /\ Present(PdeOf(pmem, last'.virt)) /\ IsPse(PdeOf(pmem, last'.virt)))
          => (err' # "" /\ pmem' = pmem /\ frames' = frames)
       /\ (/\ last'.op = "unmap_page"
           /\ \/ ~Present(PdeOf(pmem, last'.virt))
              \/ IsPse(PdeOf(pmem, last'.virt))
              \/ ~Present(PteOf(pmem, last'.virt)))
          => (err' # "" /\ pmem' = pmem /\ frames' = frames)]_vars

\* C19: unmap_page found a page table whose entry for the address is not
\* present, after other calls had changed tables and bitmap.
C19_AbsentPteHit ==
    /\ last.op = "unmap_page"
    /\ err = "panic: Attempted to unmap unmapped virtual address (PTE not present)"
    /\ Present(PdeOf(pmem, last.virt)) /\ ~IsPse(PdeOf(pmem, last.virt))
    /\ last.n > 1

----------------------------------------------------------------------------
(* The early allocator after init, called with any of a few layouts, and   *)
(* with dealloc of addresses it returned and of one it did not.            *)

MaxMemblockOps == 4
WarmAllocs == 62

\* what the boot loader reported as available: one long segment that starts
\* on an odd page, or two short ones, the first not on a page boundary
LongSegment == <<MemRegionNew(1048576 + PAGE_SIZE, 140 * PAGE_SIZE)>>
ShortSegments == <<MemRegionNew(1048576 + 2048, 8 * PAGE_SIZE),
                   MemRegionNew(2 * 1048576, 4 * PAGE_SIZE)>>

\* the allocator after k allocs of one page aligned to two pages
RECURSIVE WarmUp(_, _)
WarmUp(mb, k) ==
    LET Next(m) == IF m.err = "" THEN WarmUp(m, k - 1) ELSE m
    IN IF k = 0 THEN mb
       ELSE Next(memblock_alloc(mb, PAGE_SIZE, 2 * PAGE_SIZE).mb)

MemblockStarts ==
    { [mb EXCEPT !.printed = 0] :
        mb \in { memblock_init(MemBlockAllocatorNew, LongSegment),
                 memblock_init(MemBlockAllocatorNew, ShortSegments),
                 WarmUp(memblock_init(MemBlockAllocatorNew, LongSegment), WarmAllocs) } }

\* size and alignment of a request: less than a page, a page on a two-page
\* boundary, two pages, and more than any segment holds
Requests ==
    { <<1, 1>>, <<PAGE_SIZE, 2 * PAGE_SIZE>>, <<2 * PAGE_SIZE, PAGE_SIZE>>,
      <<256 * PAGE_SIZE, PAGE_SIZE>> }

StrayPtr == 3 * 1048576

MemblockInit ==
    /\ env \in { e \in PlainEnvs : e.garbage = 0 }
    /\ memblock \in MemblockStarts
    /\ frames = FrameAllocatorNew
    /\ pmem = NoRam
    /\ ram = NoRam
    /\ buddy = NoBuddy
    /\ pool = NodePoolNew(NODE_POOL_VIRT_START, 1)
    /\ caches = <<>>
    /\ err = ""
    /\ live = <<>>
    /\ last = NoOp
    /\ cpu = CpuIdle
    /\ next_free_virt = VIRT_START
    /\ boot = BootOff

\* live is here the list of the calls made since init, in order
Call(name, ptr, size, align) ==
    [op |-> name, ptr |-> ptr, size |-> size, align |-> align,
     printed |-> memblock'.printed,
     before |-> [memory_region |-> memblock.memory_region,
                 reserved_region |-> memblock.reserved_region,
                 memory_count |-> memblock.memory_count,
                 reserved_count |-> memblock.reserved_count]]

MemblockAllocStep ==
    \E q \in Requests :
       /\ err = ""
       /\ last.n < MaxMemblockOps
       /\ LET r == memblock_alloc(memblock, q[1], q[2])
          IN /\ memblock' = r.mb
             /\ err' = r.mb.err
             /\ last' = Op("alloc", r.ret, q[1], q[2], last.n + 1)
             /\ live' = Append(live, Call("alloc", r.ret, q[1], q[2]))
       /\ UNCHANGED <<ram, buddy, pool, caches, frames, pmem, env, next_free_virt, boot, cpu>>

MemblockDeallocStep ==
    \E p \in { live[i].ptr : i \in DOMAIN live } \cup { StrayPtr },
       q \in { r \in Requests : r[1] <= 2 * PAGE_SIZE } :
       /\ err = ""
       /\ last.n < MaxMemblockOps
       /\ p # 0
       /\ memblock' = memblock_dealloc(memblock, p, q[1])
       /\ err' = memblock'.err
       /\ last' = Op("dealloc", p, q[1], q[2], last.n + 1)
       /\ live' = Append(live, Call("dealloc", p, q[1], q[2]))
       /\ UNCHANGED <<ram, buddy, pool, caches, frames, pmem, env, next_free_virt, boot, cpu>>

MemblockNext == MemblockAllocStep \/ MemblockDeallocStep

SpecMemblock == MemblockInit /\ [][MemblockNext]_vars

\* the successful allocs of the run, when nothing but alloc was called
OnlyAllocs == \A i \in DOMAIN live : live[i].op = "alloc"
Given == { i \in DOMAIN live : live[i].op = "alloc" /\ live[i].ptr # 0 }
RangeEnd(i) == live[i].ptr + AllocSize(live[i].size)

\* C13: Memblock first-fit sequence.  For any initial segment and any
\* successful allocs, the returned bases increase from each alloc to the
\* next, each base is page-aligned and aligned as requested, and the
\* returned ranges, rounded up to a page, overlap neither each other nor any
\* region still listed as available.
C13_FirstFitSequence ==
    (err = "" /\ OnlyAllocs) =>
        /\ \A i, j \in Given : i < j => live[i].ptr < live[j].ptr
        /\ \A i \in Given : live[i].ptr % PAGE_SIZE = 0 /\ live[i].ptr % live[i].align = 0
        /\ \A i, j \in Given :
              i # j => (RangeEnd(i) <= live[j].ptr \/ RangeEnd(j) <= live[i].ptr)
        /\ \A i \in Given, k \in 0..(MAX_REGION - 1) :
              \/ is_empty(memblock.memory_region[k])
              \/ RangeEnd(i) <= memblock.memory_region[k].base
              \/ memblock.memory_region[k].base + memblock.memory_region[k].size
                    <= live[i].ptr

\* C13: two allocs in a row succeeded, the first one leaving an alignment
\* gap behind it.
C13_TwoAllocsGiven ==
    /\ err = "" /\ OnlyAllocs /\ Cardinality(Given) >= 2
    /\ \E i \in Given : live[i].align = 2 * PAGE_SIZE

\* the arrays and counts as they are now, and the last call of the run
Arrays ==
    [memory_region |-> memblock.memory_region,
     reserved_region |-> memblock.reserved_region,
     memory_count |-> memblock.memory_count,
     reserved_count |-> memblock.reserved_count]
LastCall == live[Len(live)]

\* C16: Memblock failure semantics.  An alloc that finds no region for the
\* page-rounded size at the required alignment returns null and leaves both
\* arrays and both counts as they were; an alloc that has to append to an
\* array that already holds 64 entries panics instead of dropping the
\* region.
C16_FailureSemantics ==
    last.op = "alloc" =>
        /\ last.ptr = 0 => (err = "" /\ Arrays = LastCall.before)
        /\ LastCall.printed > 0 => err # ""

\* C16: an alloc found no region although some are still listed.
C16_NothingFits ==
    /\ last.op = "alloc" /\ last.ptr = 0 /\ err = ""
    /\ memblock.memory_count > 0

\* C17: Memblock dealloc is unsupported.  dealloc panics for every pointer
\* and layout, a pointer returned by alloc included, and never moves a
\* region from the reserved array back to the available one.
C17_DeallocAlwaysPanics ==
    last.op = "dealloc" => (err # "" /\ Arrays = LastCall.before)

\* C17: dealloc was called with an address that alloc had returned.
C17_DeallocOfGiven ==
    /\ last.op = "dealloc"
    /\ \E i \in DOMAIN live : live[i].op = "alloc" /\ live[i].ptr = last.ptr

----------------------------------------------------------------------------
(* The node pool on its own: alloc, dealloc of any slot, and the bitmap    *)
(* update of alloc called on any slot.                                     *)

MaxPoolOps == 4

\* a pool of one bitmap word, and one that needs a second word
PoolCapacities == { 3, USIZE_BITS + 1 }

\* the slots a caller names: the first two and the last
PoolSlots == { 0, 1, pool.capacity - 1 }

\* the layouts a caller presents <<size, align>>: Node<usize>'s own, a weaker
\* and a stricter alignment, a smaller and a larger size
PoolLayouts ==
    { <<NODE_SIZE, NODE_ALIGN>>, <<NODE_SIZE, 1>>, <<NODE_SIZE, 2 * NODE_ALIGN>>,
      <<NODE_SIZE - 4, NODE_ALIGN>>, <<NODE_SIZE + 4, NODE_ALIGN>> }

\* the pointers a caller gives back: slots, a word inside the first slot, the
\* slot-sized steps just below and just past the pool
PoolPtrs ==
    { pool.base + i * NODE_SIZE : i \in PoolSlots }
      \cup { pool.base + 4, pool.base - NODE_SIZE, pool.base + pool.capacity * NODE_SIZE }

NodePoolInit ==
    /\ env \in { e \in PlainEnvs : e.garbage = 0 }
    /\ \E c \in PoolCapacities : pool = NodePoolNew(NODE_POOL_VIRT_START, c)
    /\ memblock = MemBlockAllocatorNew
    /\ frames = FrameAllocatorNew
    /\ pmem = NoRam
    /\ ram = NoRam
    /\ buddy = NoBuddy
    /\ caches = <<>>
    /\ err = ""
    /\ live = {}
    /\ last = NoOp
    /\ cpu = CpuIdle
    /\ next_free_virt = VIRT_START
    /\ boot = BootOff

NodePoolAllocStep ==
    /\ err = ""
    /\ last.n < MaxPoolOps
    /\ \E l \in PoolLayouts :
          LET r == node_pool_alloc(St, l[1], l[2])
          IN /\ Commit(r.st)
             /\ live' = IF r.ret # 0 THEN live \cup {r.ret} ELSE live
             /\ last' = Op("alloc", r.ret, l[1], l[2], last.n + 1)
    /\ UNCHANGED <<frames, pmem, env, next_free_virt, boot, cpu, memblock>>

NodePoolDeallocStep ==
    \E ptr \in PoolPtrs, l \in PoolLayouts :
       /\ err = ""
       /\ last.n < MaxPoolOps
       /\ Commit(node_pool_dealloc(St, ptr, l[1], l[2]))
       /\ live' = IF pool'.map # pool.map THEN live \ {ptr} ELSE live
       /\ last' = Op("dealloc", ptr, l[1], l[2], last.n + 1)
       /\ UNCHANGED <<frames, pmem, env, next_free_virt, boot, cpu, memblock>>

NodePoolMarkAllocatedStep ==
    \E i \in PoolSlots :
       /\ err = ""
       /\ last.n < MaxPoolOps
       /\ Commit(node_pool_mark_allocated(St, i))
       /\ live' = live \cup {pool.base + i * NODE_SIZE}
       /\ last' = Op("mark_allocated", pool.base + i * NODE_SIZE, NODE_SIZE, NODE_ALIGN,
                     last.n + 1)
       /\ UNCHANGED <<frames, pmem, env, next_free_virt, boot, cpu, memblock>>

NodePoolNext == NodePoolAllocStep \/ NodePoolDeallocStep \/ NodePoolMarkAllocatedStep

SpecNodePool == NodePoolInit /\ [][NodePoolNext]_vars

SlotOf(ptr) == (ptr - pool.base) \div NODE_SIZE

\* the pointer is the start of one of the pool's slots
AtSlot(ptr) ==
    /\ ptr - pool.base >= 0
    /\ ptr - pool.base < pool.capacity * NODE_SIZE
    /\ (ptr - pool.base) % NODE_SIZE = 0

\* the layout passes the test alloc and dealloc both make
Accepted(size, align) == size = NODE_SIZE /\ align <= NODE_ALIGN

\* C20: node pool corruption detection.  dealloc of a slot whose bit is
\* clear panics, and mark_allocated of a slot whose bit is set panics; in
\* both cases the bitmap is left as it was.
C20_CorruptionDetected ==
    [][/\ (/\ last'.op = "dealloc"
           /\ AtSlot(last'.ptr) /\ Accepted(last'.size, last'.align)
           /\ SlotOf(last'.ptr) \notin pool.map)
          => (err' # "" /\ pool'.map = pool.map)
       /\ (last'.op = "mark_allocated" /\ SlotOf(last'.ptr) \in pool.map)
          => (err' # "" /\ pool'.map = pool.map)]_vars

\* C20: a slot was deallocated twice in a row while another slot was in
\* use, and the second call stopped the kernel.
C20_DoubleFreeCaught ==
    /\ last.op = "dealloc" /\ last.prev_op = "dealloc" /\ last.prev_ptr = last.ptr
    /\ err = "panic: node pool double free"
    /\ pool.map # {}

----------------------------------------------------------------------------
(* One processor running the operations of the memory subsystem one after  *)
(* the other, lock by lock, with exceptions that may fire at any point.    *)

MaxCpuOps == 2
MaxInterrupts == 1

CpuInit ==
    /\ env \in { e \in PlainEnvs : e.garbage = 0 }
    /\ memblock = MemBlockAllocatorNew
    /\ frames = FrameAllocatorNew
    /\ pmem = NoRam
    /\ ram = NoRam
    /\ buddy = NoBuddy
    /\ pool = NodePoolNew(NODE_POOL_VIRT_START, 1)
    /\ caches = <<>>
    /\ err = ""
    /\ live = {}
    /\ last = NoOp
    /\ cpu = CpuIdle
    /\ next_free_virt = VIRT_START
    /\ boot = BootOff

\* an operation is called
CpuStartStep ==
    \E name \in DOMAIN Operations : \E path \in Operations[name] :
       /\ err = ""
       /\ cpu.todo = <<>>
       /\ last.n < MaxCpuOps
       /\ cpu' = [cpu EXCEPT !.todo = path]
       /\ last' = Op(name, 0, 0, 0, last.n + 1)
       /\ UNCHANGED <<ram, buddy, pool, caches, frames, pmem, memblock, env, next_free_virt, boot, err, live>>

\* Mutex::lock: the swap loop never ends when the lock is held, and on one
\* processor nobody else is there to release it
CpuLockStep ==
    /\ err = ""
    /\ cpu.todo # <<>>
    /\ Head(cpu.todo).do = "lock"
    /\ IF \E i \in DOMAIN cpu.held : cpu.held[i] = Head(cpu.todo).lock
       THEN /\ err' = "hang: spinning on a lock this processor holds"
            /\ cpu' = cpu
       ELSE /\ err' = err
            /\ cpu' = [cpu EXCEPT !.held = Append(@, Head(cpu.todo).lock),
                                  !.todo = Tail(@)]
    /\ UNCHANGED <<ram, buddy, pool, caches, frames, pmem, memblock, env, next_free_virt, boot, live, last>>

\* Drop of the guard
CpuUnlockStep ==
    /\ err = ""
    /\ cpu.todo # <<>>
    /\ Head(cpu.todo).do = "unlock"
    /\ cpu' = [cpu EXCEPT !.held = SelectSeq(@, LAMBDA l : l # Head(cpu.todo).lock),
                          !.todo = Tail(@)]
    /\ UNCHANGED <<ram, buddy, pool, caches, frames, pmem, memblock, env, next_free_virt, boot, err, live, last>>

\* an exception is taken between two events of the code that runs
InterruptStep ==
    \E h \in DOMAIN Handlers :
       /\ err = ""
       /\ cpu.handler = ""
       /\ cpu.todo # <<>>
       /\ cpu.handled < MaxInterrupts
       /\ cpu' = [cpu EXCEPT !.handler = h, !.todo = Handlers[h] \o @]
       /\ UNCHANGED <<ram, buddy, pool, caches, frames, pmem, memblock, env, next_free_virt, boot, err, live, last>>

\* the handler returns to the code it interrupted
CpuReturnStep ==
    /\ err = ""
    /\ cpu.todo # <<>>
    /\ Head(cpu.todo).do = "iret"
    /\ cpu' = [cpu EXCEPT !.handler = "", !.handled = @ + 1, !.todo = Tail(@)]
    /\ UNCHANGED <<ram, buddy, pool, caches, frames, pmem, memblock, env, next_free_virt, boot, err, live, last>>

CpuNext ==
    CpuStartStep \/ CpuLockStep \/ CpuUnlockStep \/ InterruptStep \/ CpuReturnStep

SpecLocks == CpuInit /\ [][CpuNext]_vars

AllocatorLocks ==
    { "SLAB_CACHES", "BUDDY_PAGE_ALLOCATOR", "NODE_POOL_ALLOCATOR",
      "EARLY_PHYSICAL_ALLOCATOR", "FRAME_ALLOCATOR", "FRAME_BITMAP" }

\* the descent Slab -> Buddy -> Node pool
Descent ==
    [SLAB_CACHES |-> 1, BUDDY_PAGE_ALLOCATOR |-> 2, NODE_POOL_ALLOCATOR |-> 3]

HeldAllocatorLocks == SelectSeq(cpu.held, LAMBDA l : l \in AllocatorLocks)

InOrder(a, b) == a \in DOMAIN Descent /\ b \in DOMAIN Descent /\ Descent[a] < Descent[b]

Requested ==
    IF cpu.todo # <<>> /\ Head(cpu.todo).do = "lock" THEN { Head(cpu.todo).lock } ELSE {}

\* C14: lock ordering.  At every point of every operation of the memory
\* subsystem the allocator locks held together are locks of the descent
\* Slab -> Buddy -> Node pool, taken in that order, and an allocator lock is
\* requested only while every allocator lock held comes earlier in that
\* order.
C14_LockOrdering ==
    cpu.handler = "" =>
        /\ \A i, j \in DOMAIN HeldAllocatorLocks :
              i < j => InOrder(HeldAllocatorLocks[i], HeldAllocatorLocks[j])
        /\ \A l \in Requested \cap AllocatorLocks :
              \A i \in DOMAIN HeldAllocatorLocks : InOrder(HeldAllocatorLocks[i], l)

\* C14: the whole descent is held: Slab, Buddy and Node pool.
C14_DescentHeld ==
    HeldAllocatorLocks = <<"SLAB_CACHES", "BUDDY_PAGE_ALLOCATOR", "NODE_POOL_ALLOCATOR">>

\* C15: interrupt safety.  A handler requests no allocator lock, and a
\* handler that fires at any point of the interrupted code, also while
\* that code holds an allocator, serial or VGA lock, never spins on a lock:
\* it runs to its return.
C15_HandlersComplete ==
    cpu.handler # "" =>
        /\ err = ""
        /\ Requested \cap AllocatorLocks = {}
        /\ \A l \in Requested : \A i \in DOMAIN cpu.held : cpu.held[i] # l

\* C15: a handler has run to its return while the interrupted code held a
\* lock.
C15_HandlerReturned ==
    /\ cpu.handled > 0 /\ cpu.handler = ""
    /\ cpu.held # <<>>

----------------------------------------------------------------------------
(* allocate_dynamic_virt_range called with any sizes, one call after the   *)
(* other.  live is the list of ranges returned so far.                     *)

MaxVirtOps == 4

\* sizes a caller passes: none, one byte, pages, a byte over a page, 64 MiB
\* (two fill the space), 1 GiB (the pointer wraps), and the largest words
VirtSizes ==
    { 0, 1, PAGE_SIZE, PAGE_SIZE + 1, VIRT_SIZE \div 2, 1073741824, -PAGE_SIZE, -1 }

VirtInit ==
    /\ env \in { e \in Envs : e.garbage = 0 /\ e.slab.list = 0 }
    /\ next_free_virt = VIRT_START
    /\ boot = BootOff
    /\ memblock = MemBlockAllocatorNew
    /\ frames = FrameAllocatorNew
    /\ pool = NodePoolNew(NODE_POOL_VIRT_START, 1)
    /\ pmem = NoRam
    /\ ram = NoRam
    /\ buddy = NoBuddy
    /\ caches = <<>>
    /\ err = ""
    /\ live = <<>>
    /\ last = NoOp
    /\ cpu = CpuIdle

VirtAllocStep ==
    \E size \in VirtSizes :
       /\ err = ""
       /\ last.n < MaxVirtOps
       /\ LET Done(r) ==
                /\ next_free_virt' = r.next
                /\ err' = r.err
                /\ live' = IF r.some THEN Append(live, [start |-> r.ret, size |-> size])
                           ELSE live
                /\ last' = Op("allocate_dynamic_virt_range",
                              [some |-> r.some, addr |-> r.ret], size, 0, last.n + 1)
          IN Done(allocate_dynamic_virt_range(next_free_virt, size))
       /\ UNCHANGED <<ram, buddy, pool, caches, frames, pmem, memblock, cpu, boot, env>>

VirtNext == VirtAllocStep

SpecVirt == VirtInit /\ [][VirtNext]_vars

\* unsigned a <= b
ULe(a, b) == ~ULt(b, a)

\* v + round_up(size, PAGE_SIZE) <= VIRT_END for VIRT_START <= v <= VIRT_END,
\* with the sum taken in the integers
FitsBelowEnd(v, size) ==
    /\ size >= 0 /\ size <= VIRT_END - v
    /\ div_ceil(size, PAGE_SIZE) * PAGE_SIZE <= VIRT_END - v

\* the end of a returned range, for a range that fits
EndOf(r) == r.start + div_ceil(r.size, PAGE_SIZE) * PAGE_SIZE

\* C24: dynamic virtual-range allocator.  For any sequence of calls with any
\* 32-bit sizes, a call that returns Some(v) returns a page-aligned v with
\* 0xD0000000 <= v and v + round_up(size, 4096) <= 0xD0000000 + 128 MiB that
\* is at or above the end of every range returned before; a call that
\* returns None leaves the next-free pointer where it was.
C24_VirtRanges ==
    [][(last'.op = "allocate_dynamic_virt_range" /\ err' = "")
          => IF last'.ptr.some
             THEN /\ last'.ptr.addr % PAGE_SIZE = 0
                  /\ ULe(VIRT_START, last'.ptr.addr) /\ ULe(last'.ptr.addr, VIRT_END)
                  /\ FitsBelowEnd(last'.ptr.addr, last'.size)
                  /\ \A i \in DOMAIN live : ULe(EndOf(live[i]), last'.ptr.addr)
             ELSE next_free_virt' = next_free_virt]_vars

\* C24: a call failed for want of space after two ranges had been returned.
C24_FullAfterTwo ==
    /\ last.op = "allocate_dynamic_virt_range" /\ ~last.ptr.some
    /\ Len(live) = 2 /\ err = ""
    /\ next_free_virt = VIRT_END

----------------------------------------------------------------------------
(* The global allocator filled and emptied: allocations of one size, one   *)
(* after the other, then every object freed, the last allocated first.     *)
(* live is the stack of the objects held.                                  *)

MaxCycle == 7

\* a class with room for every object in one slab, and one with three
\* objects per slab
CycleSizes == { 4, 1024 }

CyclePages == 8

CycleInit ==
    /\ env \in Envs
    /\ LET st == memory_init(1048576, 1048576 + CyclePages * PAGE_SIZE)
       IN /\ ram = st.ram
          /\ buddy = st.buddy
          /\ pool = st.pool
          /\ caches = st.caches
          /\ err = st.err
    /\ frames = FrameAllocatorNew
    /\ pmem = NoRam
    /\ live = <<>>
    /\ last = NoOp
    /\ cpu = CpuIdle
    /\ next_free_virt = VIRT_START
    /\ boot = BootOff
    /\ memblock = MemBlockAllocatorNew

CycleAllocStep ==
    \E size \in CycleSizes :
       /\ err = ""
       /\ last.op \in {"init", "alloc"}
       /\ last.op = "alloc" => size = last.size
       /\ Len(live) < MaxCycle
       /\ LET Done(r) ==
                /\ Commit(r.st)
                /\ live' = IF r.ret # 0 THEN Append(live, r.ret) ELSE live
                /\ last' = Op("alloc", r.ret, size, 4, last.n + 1)
          IN Done(global_alloc(St, size))
       /\ UNCHANGED <<frames, pmem, env, next_free_virt, boot, cpu, memblock>>

CycleDeallocStep ==
    /\ err = ""
    /\ last.op \in {"alloc", "dealloc"}
    /\ live # <<>>
    /\ Commit(global_dealloc(St, live[Len(live)], last.size))
    /\ live' = SubSeq(live, 1, Len(live) - 1)
    /\ last' = Op("dealloc", live[Len(live)], last.size, 4, last.n + 1)
    /\ UNCHANGED <<frames, pmem, env, next_free_virt, boot, cpu, memblock>>

CycleNext == CycleAllocStep \/ CycleDeallocStep

SpecCycle == CycleInit /\ [][CycleNext]_vars

\* the cache that serves the objects of this run
CycleCache == position(last.size)

\* C25: allocate-all/free-all cycle.  Starting from empty caches, every one
\* of N successive allocs of one size class succeeds, and once the N objects
\* have been freed in reverse order the cache of the class has empty full
\* and partial lists, every slab it owns is on its free list with
\* objects_in_use = 0, and the cache of every other class is as it was.
C25_AllocAllFreeAll ==
    /\ err = ""
    /\ last.op = "alloc" => last.ptr # 0
    /\ (last.op = "dealloc" /\ live = <<>>) =>
          /\ ListSlabs(CycleCache, "slabs_full") = <<>>
          /\ ListSlabs(CycleCache, "slabs_partial") = <<>>
          /\ caches[CycleCache].slabs_full.len = 0
          /\ caches[CycleCache].slabs_partial.len = 0
          /\ caches[CycleCache].slabs_free.len = Cardinality(AllSlabs(CycleCache))
          /\ \A s \in AllSlabs(CycleCache) :
                Occurs(CycleCache, "slabs_free", s) = 1 /\ InUse(s) = 0
          /\ \A j \in 1..SLAB_CACHE_COUNT :
                j # CycleCache => caches[j] = SlabCacheNew(CACHE_SIZES[j], 0)

\* C25: seven objects of three slabs were allocated and all seven freed.
C25_ThreeSlabsEmptied ==
    /\ last.op = "dealloc" /\ live = <<>> /\ last.n = 2 * MaxCycle
    /\ Cardinality(AllSlabs(CycleCache)) = 3
    /\ err = ""

----------------------------------------------------------------------------
(* translate applied to page directories and page tables of any content:   *)
(* the boot directory with one more entry, which is absent, a 4 MiB page,  *)
(* or names a page table whose entry for the address is absent or present. *)

\* the frame of a page table inside the direct map, and one above 1 GiB
LowTable == 1048576 + 62 * PAGE_SIZE
HighTable == 1073741824 + PAGE_SIZE

\* the addresses translated: the three of the boot-time tests, and
\* addresses behind directory entry 896 with and without offsets
TranslateArgs ==
    { KERNEL_OFFSET, KERNEL_OFFSET + PAGE_SIZE_4MIB, VIRT_START,
      -536870912, -536870912 + 5 * PAGE_SIZE + 291, -536870912 + PAGE_SIZE_4MIB - 1 }

\* directory entry 896: zero, flags without the present bit, a 4 MiB page at
\* 16 MiB, the two page tables
PdeChoices ==
    { 0, WRITABLE + 3 * PAGE_SIZE, 4 * PAGE_SIZE_4MIB + PRESENT + WRITABLE + PAGE_SIZE_EXT,
      LowTable + PRESENT + WRITABLE, HighTable + PRESENT + WRITABLE }

\* the table's entries 0, 5 and 1023: zero, an address without the present
\* bit, a present frame
PteChoices == { 0, 7 * PAGE_SIZE + WRITABLE, 9 * PAGE_SIZE + PRESENT + WRITABLE }

TranslateInit ==
    /\ env \in { e \in Envs : e.slab.list = 0 }
    /\ \E pde \in PdeChoices, pte \in PteChoices, fill \in {0, PRESENT} :
          pmem = [cr3 |-> PageDirectoryFrame,
                  tables |-> (PageDirectoryFrame :>
                                 [BootPageDirectory EXCEPT !.ent = (896 :> pde) @@ @])
                             @@ (AddrOf(pde) :>
                                   [fill |-> fill,
                                    ent |-> (0 :> pte) @@ (5 :> pte) @@ (1023 :> pte)])]
    /\ frames = FrameAllocatorNew
    /\ ram = NoRam
    /\ buddy = NoBuddy
    /\ pool = NodePoolNew(NODE_POOL_VIRT_START, 1)
    /\ caches = <<>>
    /\ err = ""
    /\ live = {}
    /\ last = NoOp
    /\ cpu = CpuIdle
    /\ next_free_virt = VIRT_START
    /\ boot = BootOff
    /\ memblock = MemBlockAllocatorNew

TranslateStep ==
    \E v \in TranslateArgs :
       /\ err = ""
       /\ last' = [Op("translate", translate(pmem, v), 0, 0, 1) EXCEPT !.virt = v]
       /\ UNCHANGED <<ram, buddy, pool, caches, frames, pmem, memblock, cpu, env,
                      next_free_virt, boot, err, live>>

TranslateNext == TranslateStep

SpecTranslate == TranslateInit /\ [][TranslateNext]_vars

\* entry i of the table in physical frame p, as the MMU reads it
PhysEntry(p, i) ==
    IF p \notin DOMAIN pmem.tables THEN env.garbage
    ELSE IF i \in DOMAIN pmem.tables[p].ent THEN pmem.tables[p].ent[i]
    ELSE pmem.tables[p].fill

\* the directory entry and the table entry of the address last translated
WalkPde == PhysEntry(pmem.cr3, UDiv(last.virt, PAGE_SIZE_4MIB))
WalkPte == PhysEntry(WalkPde - (WalkPde % PAGE_SIZE), UDiv(last.virt, PAGE_SIZE) % 1024)

\* what the two-level walk of the address last translated gives
WalkResult ==
    /\ ~last.ptr.panic
    /\ ~last.ptr.some <=> (~Present(WalkPde) \/ (~IsPse(WalkPde) /\ ~Present(WalkPte)))
    /\ (Present(WalkPde) /\ IsPse(WalkPde))
         => last.ptr.addr = (WalkPde - (WalkPde % PAGE_SIZE_4MIB))
                              + (last.virt % PAGE_SIZE_4MIB)
    /\ (Present(WalkPde) /\ ~IsPse(WalkPde) /\ Present(WalkPte))
         => last.ptr.addr = (WalkPte - (WalkPte % PAGE_SIZE)) + (last.virt % PAGE_SIZE)

\* the three translations of the boot-time tests
BootTranslations ==
    /\ translate(pmem, KERNEL_OFFSET) = Some(0)
    /\ translate(pmem, KERNEL_OFFSET + PAGE_SIZE_4MIB) = Some(PAGE_SIZE_4MIB)
    /\ translate(pmem, VIRT_START) = None

\* C26 as stated: translate is the two-level page walk for every address
\* and every content of page directory and page tables, and the boot
\* directory translates 0xC0000000 to 0, 0xC0400000 to 0x400000 and
\* 0xD0000000 to nothing.
C26_TranslateEveryContent ==
    /\ last.op = "translate" => WalkResult
    /\ BootTranslations

\* the page table the directory entry names lies below 1 GiB, where
\* phys_to_virt reaches it
TableInDirectMap ==
    (Present(WalkPde) /\ ~IsPse(WalkPde))
        => (WalkPde >= 0 /\ WalkPde < -KERNEL_OFFSET)

\* C26, amended: translate is the two-level page walk for every address and
\* every content in which the directory entry of the address is absent, a
\* 4 MiB page, or names a page table below 1 GiB; the boot directory
\* translates 0xC0000000 to 0, 0xC0400000 to 0x400000 and 0xD0000000 to
\* nothing.
C26_TranslateWalk ==
    /\ (last.op = "translate" /\ TableInDirectMap) => WalkResult
    /\ BootTranslations

\* C26: an address with an offset was translated through a page table.
C26_WalkedTable ==
    /\ last.op = "translate" /\ last.ptr.some
    /\ Present(WalkPde) /\ ~IsPse(WalkPde) /\ Present(WalkPte)
    /\ last.virt % PAGE_SIZE # 0
    /\ last.ptr.addr = 9 * PAGE_SIZE + 291

\* ---------------------------------------------------------------------------
\* kernel_main: the order of the checks and of the start-up calls

MAGIC_VALUE == 732803074

\* the flag word carries at most this many low bits in the boots explored
MaxFlagBits == 4

\* magic words handed over by the loader: the Multiboot one, 0xDEADBEEF, zero
\* and the word next to the Multiboot one
BootMagics == { MAGIC_VALUE, -559038737, 0, MAGIC_VALUE + 1 }
BootFlags == 0..(2 ^ MaxFlagBits - 1)

\* (boot_info.flags & 0x7) != 0x7 is the failure
FlagsOkAnyBit(flags) == flags % 8 # 0
FlagsOk(flags) == flags % 8 = 7

BootInit ==
    /\ env \in { e \in PlainEnvs : e.garbage = 0 }
    /\ boot \in { [pc |-> "start", done |-> <<>>, magic |-> m, flags |-> f] :
                    m \in BootMagics, f \in BootFlags }
    /\ next_free_virt = VIRT_START
    /\ memblock = MemBlockAllocatorNew
    /\ frames = FrameAllocatorNew
    /\ pool = NodePoolNew(NODE_POOL_VIRT_START, 1)
    /\ pmem = NoRam
    /\ ram = NoRam
    /\ buddy = NoBuddy
    /\ caches = <<>>
    /\ err = ""
    /\ live = <<>>
    /\ last = NoOp
    /\ cpu = CpuIdle

\* one statement block of kernel_main that only calls something: it is noted
\* in done and control moves on
KernelRan(from, what, to) ==
    /\ err = ""
    /\ boot.pc = from
    /\ boot' = [boot EXCEPT !.pc = to, !.done = Append(boot.done, what)]

\* Logger::init, divider, newline: text on the screen
KernelBannerStep ==
    /\ KernelRan("start", "log", "magic")
    /\ UNCHANGED <<buddy, pool, caches, ram, frames, pmem, memblock, cpu, next_free_virt,
                   env, err, live, last>>

KernelMagicStep ==
    /\ err = ""
    /\ boot.pc = "magic"
    /\ IF boot.magic # MAGIC_VALUE
       THEN /\ err' = "panic: Incorrect magic number"
            /\ boot' = [boot EXCEPT !.pc = "panicked"]
       ELSE /\ err' = err
            /\ boot' = [boot EXCEPT !.pc = "flags"]
    /\ UNCHANGED <<buddy, pool, caches, ram, frames, pmem, memblock, cpu, next_free_virt,
                   env, live, last>>

KernelFlagsStep ==
    /\ err = ""
    /\ boot.pc = "flags"
    /\ IF ~FlagsOk(boot.flags)
       THEN /\ err' = "panic: Required flags not set"
            /\ boot' = [boot EXCEPT !.pc = "panicked"]
       ELSE /\ err' = err
            /\ boot' = [boot EXCEPT !.pc = "serial"]
    /\ UNCHANGED <<buddy, pool, caches, ram, frames, pmem, memblock, cpu, next_free_virt,
                   env, live, last>>

\* the two Logger calls and SERIAL.lock().init()
KernelSerialStep ==
    /\ KernelRan("serial", "serial_init", "memory_map")
    /\ UNCHANGED <<buddy, pool, caches, ram, frames, pmem, memblock, cpu, next_free_virt,
                   env, err, live, last>>

\* get_memory_region fills G_SEGMENTS from the loader's memory map
KernelMemoryMapStep ==
    /\ KernelRan("memory_map", "get_memory_region", "memblock")
    /\ UNCHANGED <<buddy, pool, caches, ram, frames, pmem, memblock, cpu, next_free_virt,
                   env, err, live, last>>

\* EARLY_PHYSICAL_ALLOCATOR: get_or_init, then init on the segments
KernelMemblockStep ==
    /\ KernelRan("memblock", "memblock_init", "buddy")
    /\ memblock' = memblock_init(MemBlockAllocatorNew, ShortSegments)
    /\ UNCHANGED <<buddy, pool, caches, ram, frames, pmem, cpu, next_free_virt,
                   env, err, live, last>>

\* BUDDY_PAGE_ALLOCATOR.get_or_init(BuddyAllocator::new)
KernelBuddyStep ==
    /\ KernelRan("buddy", "buddy_new", "buddy_alloc")
    /\ UNCHANGED <<buddy, pool, caches, ram, frames, pmem, memblock, cpu, next_free_virt,
                   env, err, live, last>>

\* the two-page alloc from the buddy allocator, then the keyboard loop
KernelBuddyAllocStep ==
    /\ KernelRan("buddy_alloc", "buddy_alloc", "loop")
    /\ UNCHANGED <<buddy, pool, caches, ram, frames, pmem, memblock, cpu, next_free_virt,
                   env, err, live, last>>

BootNext ==
    \/ KernelBannerStep
    \/ KernelMagicStep
    \/ KernelFlagsStep
    \/ KernelSerialStep
    \/ KernelMemoryMapStep
    \/ KernelMemblockStep
    \/ KernelBuddyStep
    \/ KernelBuddyAllocStep

SpecBoot == BootInit /\ [][BootNext]_vars

\* the boot is one kernel_main must refuse
BadBoot == boot.magic # MAGIC_VALUE \/ (boot.flags % 8) # 7

\* C27: kernel_main panics when the magic word is not 0x2BADB002 or bits 0, 1
\* and 2 of the flags are not all set, and when it does only the banner has
\* been printed: the memory map has not been read and no allocator has been
\* initialised or called.
C27_ValidationFirst ==
    BadBoot =>
       /\ boot.pc \in {"start", "magic", "flags", "panicked"}
       /\ boot.magic # MAGIC_VALUE => boot.pc # "flags"
       /\ boot.pc = "panicked" <=> err # ""
       /\ \A i \in DOMAIN boot.done : boot.done[i] = "log"
       /\ memblock = MemBlockAllocatorNew

\* the magic word is right, bit 2 of the flags is clear, and kernel_main has
\* panicked at the flags check
C27_PanickedOnFlags ==
    /\ boot.magic = MAGIC_VALUE
    /\ boot.flags = 3
    /\ boot.pc = "panicked"
    /\ err = "panic: Required flags not set"

\* ---------------------------------------------------------------------------
\* memory_init: the OnceCell statics, in the order the function fills, reads
\* and empties them, and the operations that run once it has returned

OnceCells ==
    { "EARLY_PHYSICAL_ALLOCATOR", "FRAME_ALLOCATOR", "NODE_POOL_ALLOCATOR",
      "BUDDY_PAGE_ALLOCATOR", "SLAB_CACHES" }

\* pages of node pool that memory_init maps, and operations run after it
MaxPoolPages == 2
MaxRuntimeOps == 2

\* OnceCell::get / get_mut is Some, and the cells left by take
OnceCellIsSome(cells, c) == c \in cells
OnceCellKeep(cells, c) == cells
OnceCellTake(cells, c) == cells \ {c}

GetOrInit(c) == <<[do |-> "get_or_init", cell |-> c]>>
Expect(c) == <<[do |-> "expect", cell |-> c]>>
Take(c) == <<[do |-> "take", cell |-> c]>>
IsSome(c) == <<[do |-> "is_some", cell |-> c]>>
Noted(what) == <<[do |-> what, cell |-> ""]>>

\* the cells a path of an operation goes to: each lock of a cell is followed
\* by get() or get_mut() on it
Expects(path) ==
    LET OnCell(e) == e.do = "lock" /\ e.lock \in OnceCells
        locks == SelectSeq(path, OnCell)
    IN [i \in 1..Len(locks) |-> [do |-> "expect", cell |-> locks[i].lock]]

\* one event on the cells of b: done keeps it with what the cell held
Access(b, e) ==
    LET some == OnceCellIsSome(b.cells, e.cell)
        noted == [b EXCEPT !.done = Append(b.done, [do |-> e.do, cell |-> e.cell,
                                                     some |-> some])]
    IN IF e.do = "get_or_init" THEN [noted EXCEPT !.cells = b.cells \cup {e.cell}]
       ELSE IF e.do = "expect" /\ ~some
       THEN [noted EXCEPT !.err = "panic: expect on an empty cell"]
       ELSE IF e.do = "take" THEN [noted EXCEPT !.cells = OnceCellTake(b.cells, e.cell)]
       ELSE IF e.do = "is_some" /\ some
       THEN [noted EXCEPT !.err = "panic: memblock has not been decommissioned"]
       ELSE noted

RECURSIVE Run(_, _)
Run(b, events) ==
    IF events = <<>> \/ b.err # "" THEN b
    ELSE Run(Access(b, Head(events)), Tail(events))

MemoryInitInit ==
    /\ env \in { e \in PlainEnvs : e.garbage = 0 }
    /\ boot \in { [pc |-> "get_memory_region", done |-> <<>>, cells |-> {}, err |-> "",
                   pool_pages |-> p, mapped |-> 0, table |-> t, ops |-> 0] :
                    p \in 1..MaxPoolPages, t \in BOOLEAN }
    /\ next_free_virt = VIRT_START
    /\ memblock = MemBlockAllocatorNew
    /\ frames = FrameAllocatorNew
    /\ pool = NodePoolNew(NODE_POOL_VIRT_START, 1)
    /\ pmem = NoRam
    /\ ram = NoRam
    /\ buddy = NoBuddy
    /\ caches = <<>>
    /\ err = ""
    /\ live = <<>>
    /\ last = NoOp
    /\ cpu = CpuIdle

\* a block of memory_init, entered with the start-up record b: its events
\* run in order and control moves on, unless one of them panicked
MemoryInitRan(b, events, to) ==
    /\ err = ""
    /\ LET Done(r) ==
             /\ boot' = [r EXCEPT !.pc = IF r.err = "" THEN to ELSE "panicked"]
             /\ err' = r.err
       IN Done(Run(b, events))
    /\ UNCHANGED <<buddy, pool, caches, ram, frames, pmem, memblock, cpu, next_free_virt,
                   env, live, last>>

MemoryInitSegmentsStep ==
    /\ boot.pc = "get_memory_region"
    /\ MemoryInitRan(boot, Noted("get_memory_region"), "memblock")

MemoryInitMemblockStep ==
    /\ boot.pc = "memblock"
    /\ MemoryInitRan(boot,
                     GetOrInit("EARLY_PHYSICAL_ALLOCATOR")
                       \o Expect("EARLY_PHYSICAL_ALLOCATOR"),
                     "frame")

\* FrameAllocator::init reads the regions of Memblock
MemoryInitFrameStep ==
    /\ boot.pc = "frame"
    /\ MemoryInitRan(boot, GetOrInit("FRAME_ALLOCATOR") \o Expects(FrameInitLocks),
                     "pool_alloc")

\* the node pool's bytes, from Memblock
MemoryInitPoolAllocStep ==
    /\ boot.pc = "pool_alloc"
    /\ MemoryInitRan(boot, Expects(MemblockAllocLocks) \o Noted("pool_alloc"), "pool_map")

\* one turn of the mapping loop: a frame, and map_page with a new page table
\* when the directory entry is not present
MemoryInitMapPageStep ==
    /\ boot.pc = "pool_map"
    /\ boot.mapped < boot.pool_pages
    /\ MemoryInitRan([boot EXCEPT !.mapped = boot.mapped + 1, !.table = TRUE],
                     Expects(AllocateFrameLocks)
                       \o (IF boot.table THEN <<>> ELSE Expects(AllocateFrameLocks))
                       \o Noted("pool_page_mapped"),
                     "pool_map")

\* NodePoolAllocator::new takes its bitmap from Memblock inside get_or_init
MemoryInitNodePoolStep ==
    /\ boot.pc = "pool_map"
    /\ boot.mapped = boot.pool_pages
    /\ MemoryInitRan(boot,
                     Expects(MemblockAllocLocks) \o Noted("pool_bitmap")
                       \o GetOrInit("NODE_POOL_ALLOCATOR"),
                     "base")

\* the base of the first region that is not empty
MemoryInitBaseStep ==
    /\ boot.pc = "base"
    /\ MemoryInitRan(boot, Expect("EARLY_PHYSICAL_ALLOCATOR"), "buddy")

\* BuddyAllocator::new takes its bitmap from Memblock and a list node from
\* the node pool, inside get_or_init
MemoryInitBuddyStep ==
    /\ boot.pc = "buddy"
    /\ MemoryInitRan(boot,
                     Expects(MemblockAllocLocks \o NodeAllocate)
                       \o GetOrInit("BUDDY_PAGE_ALLOCATOR"),
                     "slab")

MemoryInitSlabStep ==
    /\ boot.pc = "slab"
    /\ MemoryInitRan(boot, GetOrInit("SLAB_CACHES"), "decommission")

\* take(), the check that the cell is empty, and the return
MemoryInitDecommissionStep ==
    /\ boot.pc = "decommission"
    /\ MemoryInitRan(boot,
                     Take("EARLY_PHYSICAL_ALLOCATOR") \o IsSome("EARLY_PHYSICAL_ALLOCATOR")
                       \o Noted("return"),
                     "returned")

\* what runs after memory_init: the alloc, dealloc and map operations
RuntimeOperations ==
    { "global_alloc", "global_dealloc", "buddy_alloc", "buddy_dealloc",
      "allocate_frame", "deallocate_frame", "map_page", "unmap_page" }

RuntimeStep ==
    \E op \in RuntimeOperations :
       \E path \in Operations[op] :
          /\ boot.pc = "returned"
          /\ boot.ops < MaxRuntimeOps
          /\ MemoryInitRan([boot EXCEPT !.ops = boot.ops + 1],
                           Noted(op) \o Expects(path), "returned")

MemoryInitNext ==
    \/ MemoryInitSegmentsStep
    \/ MemoryInitMemblockStep
    \/ MemoryInitFrameStep
    \/ MemoryInitPoolAllocStep
    \/ MemoryInitMapPageStep
    \/ MemoryInitNodePoolStep
    \/ MemoryInitBaseStep
    \/ MemoryInitBuddyStep
    \/ MemoryInitSlabStep
    \/ MemoryInitDecommissionStep
    \/ RuntimeStep

SpecMemoryInit == MemoryInitInit /\ [][MemoryInitNext]_vars

\* the events of one kind in done, and the place of the first event of a kind
Events(kind) ==
    LET Is(e) == e.do = kind
    IN SelectSeq(boot.done, Is)
Place(kind) ==
    LET at == { i \in DOMAIN boot.done : boot.done[i].do = kind }
    IN IF at = {} THEN Len(boot.done) + 1 ELSE CHOOSE i \in at : \A j \in at : i <= j

\* the order in which memory_init fills the cells
InitOrder ==
    << "EARLY_PHYSICAL_ALLOCATOR", "FRAME_ALLOCATOR", "NODE_POOL_ALLOCATOR",
       "BUDDY_PAGE_ALLOCATOR", "SLAB_CACHES" >>

\* C28: memory_init fills the cells in the order Memblock, Frame allocator,
\* Node pool (after its backing range is mapped and its bitmap taken), Buddy,
\* Slab caches, and empties Memblock only after all five; every cell it or a
\* later operation reads has been filled; once it has returned the Memblock
\* cell is empty and no alloc, dealloc or map operation goes to it.
C28_InitLifecycle ==
    /\ err = ""
    /\ \A i \in DOMAIN Events("get_or_init") :
          /\ i <= Len(InitOrder)
          /\ Events("get_or_init")[i].cell = InitOrder[i]
          /\ ~Events("get_or_init")[i].some
    /\ Events("take") # <<>> => Len(Events("get_or_init")) = Len(InitOrder)
    /\ "NODE_POOL_ALLOCATOR" \in boot.cells =>
          /\ Len(Events("pool_page_mapped")) = boot.pool_pages
          /\ Len(Events("pool_bitmap")) = 1
    /\ \A i \in DOMAIN boot.done : boot.done[i].do = "expect" => boot.done[i].some
    /\ boot.pc = "returned" =>
          /\ "EARLY_PHYSICAL_ALLOCATOR" \notin boot.cells
          /\ boot.cells = OnceCells \ {"EARLY_PHYSICAL_ALLOCATOR"}
          /\ \A i \in DOMAIN boot.done :
                i > Place("return") => boot.done[i].cell # "EARLY_PHYSICAL_ALLOCATOR"

\* memory_init has returned and two operations have run since, the second a
\* global alloc that went to Buddy and the node pool
C28_RanAfterInit ==
    /\ boot.pc = "returned"
    /\ boot.ops = 2
    /\ Len(boot.done) > Place("return") + 4
    /\ boot.done[Len(boot.done)].cell = "NODE_POOL_ALLOCATOR"
    /\ boot.done[Len(boot.done) - 2].cell = "SLAB_CACHES"

\* ---------------------------------------------------------------------------
\* LinkedList<usize, NodeAllocatorWrapper> as a double-ended sequence.  The
\* list is free list 0 of a Buddy allocator that is otherwise unused; live is
\* the sequence of the elements it should hold, front first.

MaxListOps == 4
ListSlots == 3
ListElts == {7, 8}

ListInit ==
    /\ env \in Envs
    /\ pool = NodePoolNew(NODE_POOL_VIRT_START, ListSlots)
    /\ buddy = NoBuddy
    /\ ram = NoRam
    /\ caches = <<>>
    /\ memblock = MemBlockAllocatorNew
    /\ frames = FrameAllocatorNew
    /\ pmem = NoRam
    /\ err = ""
    /\ live = <<>>
    /\ last = NoOp
    /\ cpu = CpuIdle
    /\ next_free_virt = VIRT_START
    /\ boot = BootOff

\* a push: st is the state it leaves
ListPushed(name, st, elt, seq) ==
    /\ Commit(st)
    /\ live' = IF st.err = "" THEN seq ELSE live
    /\ last' = Op(name, [some |-> FALSE, ret |-> 0], elt, 0, last.n + 1)
    /\ UNCHANGED <<frames, pmem, memblock, cpu, next_free_virt, boot, env>>

\* a pop: r is its result
ListPopped(name, r, seq) ==
    /\ Commit(r.st)
    /\ live' = IF r.st.err = "" THEN seq ELSE live
    /\ last' = Op(name, [some |-> r.some, ret |-> r.ret], 0, 0, last.n + 1)
    /\ UNCHANGED <<frames, pmem, memblock, cpu, next_free_virt, boot, env>>

ListPushBackStep ==
    \E elt \in ListElts :
       /\ err = ""
       /\ last.n < MaxListOps
       /\ ListPushed("push_back", push_back(St, 0, elt), elt, Append(live, elt))

ListPushFrontStep ==
    \E elt \in ListElts :
       /\ err = ""
       /\ last.n < MaxListOps
       /\ ListPushed("push_front", push_front(St, 0, elt), elt, <<elt>> \o live)

ListPopBackStep ==
    /\ err = ""
    /\ last.n < MaxListOps
    /\ ListPopped("pop_back", pop_back(St, 0),
                  IF live = <<>> THEN live ELSE SubSeq(live, 1, Len(live) - 1))

ListPopFrontStep ==
    /\ err = ""
    /\ last.n < MaxListOps
    /\ ListPopped("pop_front", pop_front(St, 0),
                  IF live = <<>> THEN live ELSE Tail(live))

ListClearStep ==
    /\ err = ""
    /\ last.n < MaxListOps
    /\ ListPushed("clear", list_clear(St, 0), 0, <<>>)

ListNext ==
    \/ ListPushBackStep
    \/ ListPushFrontStep
    \/ ListPopBackStep
    \/ ListPopFrontStep
    \/ ListClearStep

SpecList == ListInit /\ [][ListNext]_vars

\* the elements met from the tail along prev, last first
RECURSIVE BackWalk(_, _)
BackWalk(current, seen) ==
    IF current = 0 \/ ~Accessible(St, current) \/ current \in seen THEN <<>>
    ELSE <<Read(St, NodeF(current, "element"))>>
         \o BackWalk(Read(St, NodeF(current, "prev")), seen \cup {current})

Reversed(s) == [i \in 1..Len(s) |-> s[Len(s) + 1 - i]]

\* the list holds exactly live: along next from the head, along prev from
\* the tail, and by len, is_empty, front and back
HoldsLive ==
    /\ FreeBlocks(0) = live
    /\ BackWalk(buddy.free_lists[0].tail, {}) = Reversed(live)
    /\ list_len(St, 0) = Len(live)
    /\ list_is_empty(St, 0) <=> Len(live) = 0
    /\ list_front(St, 0).some <=> Len(live) # 0
    /\ list_back(St, 0).some <=> Len(live) # 0
    /\ Len(live) # 0 => /\ list_front(St, 0).ret = live[1]
                        /\ list_back(St, 0).ret = live[Len(live)]
    /\ Cardinality(pool.map) = Len(live)

\* C29: after any sequence of push_back, push_front, pop_back, pop_front and
\* clear the list holds the abstract sequence: len() is its length, is_empty()
\* holds iff it is empty iff front() and back() are None, pop_front and
\* pop_back return its first and last element, a pop on an empty list
\* returns None and leaves it empty, and a cleared list is empty and takes
\* pushes again.  A push stops the kernel, the list untouched, only when the
\* allocator has no node left.
C29_DoubleEndedSequence ==
    [][/\ err' = "" => HoldsLive'
       /\ err' # "" => /\ last'.op \in {"push_back", "push_front"}
                       /\ Len(live) = ListSlots
                       /\ buddy' = buddy /\ pool' = pool
       /\ last'.op = "pop_front" =>
             /\ last'.ptr.some <=> live # <<>>
             /\ live # <<>> => last'.ptr.ret = Head(live) /\ live' = Tail(live)
             /\ live = <<>> => live' = <<>>
       /\ last'.op = "pop_back" =>
             /\ last'.ptr.some <=> live # <<>>
             /\ live # <<>> => /\ last'.ptr.ret = live[Len(live)]
                               /\ live' = SubSeq(live, 1, Len(live) - 1)
             /\ live = <<>> => live' = <<>>
       /\ last'.op = "clear" => live' = <<>> /\ pool'.map = {}]_vars

\* the fourth operation is a push_front of 8 right after a clear, and the
\* list holds that element alone
C29_ReusedAfterClear ==
    /\ err = ""
    /\ last.op = "push_front"
    /\ last.prev_op = "clear"
    /\ last.n = 4
    /\ live = <<8>>

\* ---------------------------------------------------------------------------
\* PhysAddr, VirtAddr and the alignment functions of addr.rs, on 32-bit
\* words in two's complement

\* !x, x & y and x | y
BitNot(x) == (-1) - x
RECURSIVE BitAnd(_, _)
BitAnd(x, y) ==
    IF x = 0 \/ y = 0 THEN 0
    ELSE IF x = -1 THEN y
    ELSE IF y = -1 THEN x
    ELSE 2 * BitAnd(x \div 2, y \div 2) + (x % 2) * (y % 2)
BitOr(x, y) == BitNot(BitAnd(BitNot(x), BitNot(y)))

\* usize::is_power_of_two: exactly one bit set
is_power_of_two(x) == x # 0 /\ BitAnd(x, WrapSub(x, 1)) = 0

\* the wrappers: a struct of one field
PhysAddr_new(addr) == [PhysAddr |-> addr]
PhysAddr_as_usize(pa) == pa.PhysAddr
VirtAddr_new(addr) == [VirtAddr |-> addr]
VirtAddr_as_usize(va) == va.VirtAddr

align_down(addr, align) ==
    IF ~is_power_of_two(align)
    THEN [err |-> "panic: align must be a power of two", ret |-> 0]
    ELSE [err |-> "", ret |-> BitAnd(addr, BitNot(WrapSub(align, 1)))]

\* align_up without the test for an address that is aligned already
align_up_always_adds(addr, align) ==
    IF ~is_power_of_two(align)
    THEN [err |-> "panic: align must be a power of two", ret |-> 0]
    ELSE IF UAddOverflows(BitOr(addr, WrapSub(align, 1)), 1)
    THEN [err |-> "panic: attempt to add with overflow", ret |-> 0]
    ELSE [err |-> "", ret |-> WrapAdd(BitOr(addr, WrapSub(align, 1)), 1)]

align_up(addr, align) ==
    IF ~is_power_of_two(align)
    THEN [err |-> "panic: align must be a power of two", ret |-> 0]
    ELSE IF BitAnd(addr, WrapSub(align, 1)) = 0
    THEN [err |-> "", ret |-> addr]
    ELSE IF UAddOverflows(BitOr(addr, WrapSub(align, 1)), 1)
    THEN [err |-> "panic: attempt to add with overflow", ret |-> 0]
    ELSE [err |-> "", ret |-> WrapAdd(BitOr(addr, WrapSub(align, 1)), 1)]

\* PhysAddr::is_aligned_usize and VirtAddr::is_aligned_usize
is_aligned(addr, align) ==
    IF align_down(addr, align).err # ""
    THEN [err |-> align_down(addr, align).err, ret |-> FALSE]
    ELSE [err |-> "",
          ret |-> PhysAddr_as_usize(PhysAddr_new(align_down(addr, align).ret)) = addr]

MaxAddrOps == 1

\* words around zero, a page, the sign bit and the top of the address space
AddrWords ==
    { 0, 1, 7, 8, 4095, 4096, 4097, 1073741824 + 5, 2147483647,
      -2147483647 - 1, -2147483647, -4096, -4095, -1 }

\* alignments: powers of two from 1 to 2^31, and words that are none
AddrAligns ==
    { 1, 2, 8, 4096, 4194304, 1073741824, -2147483647 - 1, 0, 3, 6, 4097, -1 }

AddrInit ==
    /\ env \in { e \in PlainEnvs : e.garbage = 0 }
    /\ pool = NodePoolNew(NODE_POOL_VIRT_START, 1)
    /\ buddy = NoBuddy
    /\ ram = NoRam
    /\ caches = <<>>
    /\ memblock = MemBlockAllocatorNew
    /\ frames = FrameAllocatorNew
    /\ pmem = NoRam
    /\ err = ""
    /\ live = <<>>
    /\ last = NoOp
    /\ cpu = CpuIdle
    /\ next_free_virt = VIRT_START
    /\ boot = BootOff

\* a call: what it returned goes to last.ptr, its arguments to size and align
AddrCalled(name, r, addr, align) ==
    /\ err' = r.err
    /\ last' = Op(name, r.ret, addr, align, last.n + 1)
    /\ UNCHANGED <<buddy, pool, caches, ram, frames, pmem, memblock, cpu, next_free_virt,
                   boot, env, live>>

PhysAddrStep ==
    \E n \in AddrWords :
       /\ err = ""
       /\ last.n < MaxAddrOps
       /\ AddrCalled("PhysAddr",
                     [err |-> "", ret |-> PhysAddr_as_usize(PhysAddr_new(n))], n, 0)

VirtAddrStep ==
    \E n \in AddrWords :
       /\ err = ""
       /\ last.n < MaxAddrOps
       /\ AddrCalled("VirtAddr",
                     [err |-> "", ret |-> VirtAddr_as_usize(VirtAddr_new(n))], n, 0)

AlignDownStep ==
    \E a \in AddrWords, k \in AddrAligns :
       /\ err = ""
       /\ last.n < MaxAddrOps
       /\ AddrCalled("align_down", align_down(a, k), a, k)

AlignUpStep ==
    \E a \in AddrWords, k \in AddrAligns :
       /\ err = ""
       /\ last.n < MaxAddrOps
       /\ AddrCalled("align_up", align_up(a, k), a, k)

IsAlignedStep ==
    \E a \in AddrWords, k \in AddrAligns :
       /\ err = ""
       /\ last.n < MaxAddrOps
       /\ AddrCalled("is_aligned", is_aligned(a, k), a, k)

AddrNext ==
    \/ PhysAddrStep
    \/ VirtAddrStep
    \/ AlignDownStep
    \/ AlignUpStep
    \/ IsAlignedStep

SpecAddr == AddrInit /\ [][AddrNext]_vars

\* the powers of two a word can hold, 2^31 being the sign bit alone
PowersOfTwo == { 2 ^ i : i \in 0..30 } \cup { -2147483647 - 1 }

\* the unsigned value of x is a multiple of the power of two k
MultipleOf(x, k) == IF k > 0 THEN x % k = 0 ELSE x \in {0, k}

\* r is the multiple of k next to a from below, or from above
MultipleBelow(r, a, k) ==
    /\ MultipleOf(r, k) /\ ULe(r, a) /\ ULt(WrapSub(a, r), k)
    /\ \A m \in AddrWords : MultipleOf(m, k) /\ ULe(m, a) => ULe(m, r)
MultipleAbove(r, a, k) ==
    /\ MultipleOf(r, k) /\ ULe(a, r) /\ ULt(WrapSub(r, a), k)
    /\ \A m \in AddrWords : MultipleOf(m, k) /\ ULe(a, m) => ULe(r, m)

\* C30: PhysAddr::new(n).as_usize() and VirtAddr::new(n).as_usize() are n;
\* for a power of two k, align_down(a, k) is the greatest multiple of k not
\* above a, align_up(a, k) is the smallest multiple of k not below a and
\* panics when that multiple does not fit the word, align_down leaves the
\* result of align_up alone, and is_aligned(a, k) says whether a is a
\* multiple of k.
C30_AddrAlignment ==
    /\ last.op \in {"PhysAddr", "VirtAddr"} => last.ptr = last.size /\ err = ""
    /\ last.op = "align_down" /\ last.align \in PowersOfTwo =>
          err = "" /\ MultipleBelow(last.ptr, last.size, last.align)
    /\ last.op = "align_up" /\ last.align \in PowersOfTwo =>
          IF ULt(WrapSub(0, last.align), last.size)
          THEN err = "panic: attempt to add with overflow"
          ELSE /\ err = ""
               /\ MultipleAbove(last.ptr, last.size, last.align)
               /\ align_down(last.ptr, last.align) = [err |-> "", ret |-> last.ptr]
    /\ last.op = "is_aligned" /\ last.align \in PowersOfTwo =>
          err = "" /\ (last.ptr <=> MultipleOf(last.size, last.align))

\* align_up of 0x80000001 to 4 MiB returned 0x80400000
C30_AlignedUpAboveSignBit ==
    /\ last.op = "align_up"
    /\ last.size = -2147483647
    /\ last.align = 4194304
    /\ last.ptr = -2147483647 - 1 + 4194304
    /\ err = ""

\* ---------------------------------------------------------------------------
\* Buddy: what a matched dealloc does

\* C31: a dealloc of a block that alloc returned, with the layout of the
\* alloc, runs to its end: whenever the merge loop takes a buddy for free
\* from the bitmap the buddy is on the free list of its order, for power of
\* two and other block counts, up to a merge into the block of max_order.
C31_ValidDeallocCompletes ==
    [][last'.op = "dealloc" => err' = ""]_vars

\* a matched dealloc that found its buddy allocated and returned
C31_DeallocReturned ==
    /\ last.op = "dealloc"
    /\ err = ""
    /\ live # {}


\* C32: node accounting.  While the allocator runs, the node pool has as
\* many slots marked allocated as there are entries on the free lists of
\* all orders: a node taken off a list, popped by alloc or removed as the
\* buddy of a merge, has gone back to the node pool.
C32_NodeAccounting ==
    err = "" => Cardinality(pool.map) = Cardinality(FreeEntries)

\* C32: a dealloc has merged the block with its buddy and returned
C32_MergedAndReturned ==
    /\ err = ""
    /\ last.op = "dealloc"
    /\ \E e \in FreeEntries : e[1] > 0 /\ e[3] <= last.ptr
                              /\ last.ptr < e[3] + BlockSize(buddy, e[1])


----------------------------------------------------------------------------
(* memory_init with the regions it moves: Memblock filled from the         *)
(* segments, the frame bitmap, the node pool's bytes and bitmap out of     *)
(* Memblock, the pool's pages mapped, Buddy over what the segments sum to, *)
(* the slab caches, and then alloc calls on Buddy.  boot is [pc, segments, *)
(* base, allocs]; memblock keeps the regions the allocator held when       *)
(* memory_init took it out of its cell.                                    *)

MaxRegionAllocs == 2

\* what get_memory_region leaves in G_SEGMENTS: the available entries of the
\* boot loader's map that do not start at 0.  Every list sums to more than
\* the address its first segment starts at, so that size -= base in
\* BuddyAllocator::new does not wrap.
SegmentLists ==
    { <<MemRegionNew(b, s)>> \o more :
        b \in { 1048576, 1048576 + 2048 },
        s \in { 512 * PAGE_SIZE, 515 * PAGE_SIZE },
        more \in { <<>>, <<MemRegionNew(16 * 1048576, 600 * PAGE_SIZE)>> } }

\* the index of the largest segment, the first of them when several are
get_biggest_available_segment_index(segments) ==
    Min({ i \in DOMAIN segments :
            \A j \in DOMAIN segments : segments[j].size <= segments[i].size })

RECURSIVE SumSizes(_)
SumSizes(segments) ==
    IF segments = <<>> THEN 0 ELSE segments[1].size + SumSizes(Tail(segments))

\* the node pool's capacity and the two requests made for it
needed_nodes(segments) ==
    segments[get_biggest_available_segment_index(segments)].size \div PAGE_SIZE

\* the loop of memory_init that maps the node pool, page by page
RECURSIVE map_node_pool(_, _, _)
map_node_pool(ps, current_vaddr, end_vaddr) ==
    IF ps.err # "" \/ current_vaddr >= end_vaddr THEN ps
    ELSE LET Mapped(r) ==
                 IF r.ret = -1
                 THEN PFail(ps, "panic: Failed to allocate frame for node pool")
                 ELSE map_node_pool(map_page([ps EXCEPT !.fa = r.fa], r.ret,
                                             current_vaddr, PRESENT + WRITABLE),
                                    current_vaddr + PAGE_SIZE, end_vaddr)
         IN Mapped(allocate_frame(ps.fa))

\* the first region of the available array that is not empty, -1 for none
first_region_base(mb) ==
    LET at == { i \in 0..(MAX_REGION - 1) : ~is_empty(mb.memory_region[i]) }
    IN IF at = {} THEN -1 ELSE mb.memory_region[Min(at)].base

\* BuddyAllocator::new(base): the bitmap comes out of Memblock, then the
\* block of max_order goes on its list
buddy_new(st, mb, base, segments) ==
    LET Asked(r) ==
            IF r.ret = 0
            THEN [st |-> Fail(st, "panic: Failed to allocate memory for buddy allocator bitmap"),
                  mb |-> r.mb]
            ELSE [st |-> BuddyNew(st, base, SumSizes(segments)), mb |-> r.mb]
    IN Asked(memblock_alloc(mb,
                 4 * div_ceil(div_ceil((SumSizes(segments) - base) \div PAGE_SIZE, 8), 4),
                 4))

RegionsInit ==
    /\ env \in Envs
    /\ boot \in { [pc |-> "memblock", done |-> <<>>, segments |-> s, base |-> 0, allocs |-> 0] :
                    s \in SegmentLists }
    /\ memblock = MemBlockAllocatorNew
    /\ frames = FrameAllocatorNew
    /\ pmem = [cr3 |-> PageDirectoryFrame,
               tables |-> (PageDirectoryFrame :> BootPageDirectory)]
    /\ pool = NodePoolNew(NODE_POOL_VIRT_START, 1)
    /\ ram = NoRam
    /\ buddy = NoBuddy
    /\ caches = <<>>
    /\ err = ""
    /\ live = {}
    /\ last = NoOp
    /\ cpu = CpuIdle
    /\ next_free_virt = VIRT_START

\* control moves to the next block of memory_init unless this one panicked
RegionsMoved(why, to) ==
    /\ err' = why
    /\ boot' = [boot EXCEPT !.pc = IF why = "" THEN to ELSE "panicked"]

\* MemBlockAllocator::new and init
RegionsMemblockStep ==
    /\ boot.pc = "memblock"
    /\ memblock' = memblock_init(MemBlockAllocatorNew, boot.segments)
    /\ RegionsMoved(memblock'.err, "frame")
    /\ UNCHANGED <<buddy, pool, caches, ram, frames, pmem, cpu, next_free_virt,
                   env, live, last>>

\* FrameAllocator::new and init, over the regions Memblock holds
RegionsFrameStep ==
    /\ boot.pc = "frame"
    /\ frames' = frame_init(FrameAllocatorNew,
                            { memblock.memory_region[i] : i \in 0..(MAX_REGION - 1) },
                            KernelStart, KernelEnd, BitmapPhysAddr)
    /\ RegionsMoved("", "pool_alloc")
    /\ UNCHANGED <<buddy, pool, caches, ram, pmem, memblock, cpu, next_free_virt,
                   env, live, last>>

\* the bytes of the node pool, one Node for every page of the largest segment
RegionsPoolAllocStep ==
    /\ boot.pc = "pool_alloc"
    /\ LET r == memblock_alloc(memblock, needed_nodes(boot.segments) * NODE_SIZE, NODE_ALIGN)
       IN /\ memblock' = r.mb
          /\ RegionsMoved(IF r.ret = 0
                          THEN "panic: Failed to allocate node pool from MemBlock"
                          ELSE r.mb.err, "pool_map")
    /\ UNCHANGED <<buddy, pool, caches, ram, frames, pmem, cpu, next_free_virt,
                   env, live, last>>

\* the pages of the pool, each on a frame of the frame allocator
RegionsPoolMapStep ==
    /\ boot.pc = "pool_map"
    /\ LET ps == map_node_pool(Ps, NODE_POOL_VIRT_START,
                               NODE_POOL_VIRT_START
                                 + needed_nodes(boot.segments) * NODE_SIZE)
       IN /\ frames' = ps.fa
          /\ pmem' = ps.pm
          /\ RegionsMoved(ps.err, "node_pool")
    /\ UNCHANGED <<buddy, pool, caches, ram, memblock, cpu, next_free_virt,
                   env, live, last>>

\* NodePoolAllocator::new: the pool's bitmap, one bit for every node
RegionsNodePoolStep ==
    /\ boot.pc = "node_pool"
    /\ LET r == memblock_alloc(memblock,
                               4 * div_ceil(needed_nodes(boot.segments), USIZE_BITS), 4)
       IN /\ memblock' = r.mb
          /\ pool' = NodePoolNew(NODE_POOL_VIRT_START, needed_nodes(boot.segments))
          /\ RegionsMoved(IF r.ret = 0
                          THEN "panic: NodePoolAllocator::new failed to allocate bitmap memory from MemBlock"
                          ELSE r.mb.err, "base")
    /\ UNCHANGED <<buddy, caches, ram, frames, pmem, cpu, next_free_virt,
                   env, live, last>>

\* let base = the base of the first region that is not empty
RegionsBaseStep ==
    /\ boot.pc = "base"
    /\ IF first_region_base(memblock) = -1
       THEN RegionsMoved("panic: No non-empty memory regions available", "buddy")
       ELSE /\ err' = ""
            /\ boot' = [boot EXCEPT !.pc = "buddy", !.base = first_region_base(memblock)]
    /\ UNCHANGED <<buddy, pool, caches, ram, frames, pmem, memblock, cpu, next_free_virt,
                   env, live, last>>

\* BuddyAllocator::new(base), the slab caches, and Memblock leaves its cell
RegionsBuddyStep ==
    /\ boot.pc = "buddy"
    /\ LET r == buddy_new(St, memblock, boot.base, boot.segments)
       IN /\ memblock' = r.mb
          /\ ram' = r.st.ram
          /\ pool' = r.st.pool
          /\ buddy' = r.st.buddy
          /\ caches' = [i \in 1..SLAB_CACHE_COUNT |-> SlabCacheNew(CACHE_SIZES[i], 0)]
          /\ RegionsMoved(r.st.err, "returned")
    /\ UNCHANGED <<frames, pmem, cpu, next_free_virt, env, live, last>>

\* BuddyAllocator::alloc, after memory_init has returned
RegionsAllocStep ==
    \E l \in BuddyLayouts \cup { [size |-> BlockSize(buddy, buddy.max_order),
                                  align |-> PAGE_SIZE] } :
       /\ boot.pc = "returned"
       /\ err = ""
       /\ boot.allocs < MaxRegionAllocs
       /\ LET r == buddy_alloc(St, l.size, l.align)
          IN /\ Commit(r.st)
             /\ live' = IF r.st.err = "" /\ r.ret # 0
                        THEN live \cup {[ptr |-> r.ret, size |-> l.size, align |-> l.align]}
                        ELSE live
             /\ last' = Op("alloc", r.ret, l.size, l.align, last.n + 1)
       /\ boot' = [boot EXCEPT !.allocs = boot.allocs + 1]
       /\ UNCHANGED <<frames, pmem, env, next_free_virt, cpu, memblock>>

RegionsNext ==
    \/ RegionsMemblockStep
    \/ RegionsFrameStep
    \/ RegionsPoolAllocStep
    \/ RegionsPoolMapStep
    \/ RegionsNodePoolStep
    \/ RegionsBaseStep
    \/ RegionsBuddyStep
    \/ RegionsAllocStep

SpecRegions == RegionsInit /\ [][RegionsNext]_vars

\* what Memblock holds as reserved
ReservedRegions ==
    { memblock.reserved_region[i] : i \in 0..(memblock.reserved_count - 1) }

\* [from, from + bytes) has no byte in region r
Beside(from, bytes, r) == r.base + r.size <= from \/ from + bytes <= r.base

\* C33: Buddy and Memblock are disjoint.  Once memory_init has returned, no
\* region that Memblock reserved (the node pool's bytes, its bitmap, the
\* bitmap of Buddy) has a byte in [base, base + (PAGE_SIZE << max_order)),
\* and no block that alloc returns has a byte in such a region.
C33_BuddyBesideMemblock ==
    (boot.pc = "returned" /\ err = "")
        => /\ \A r \in ReservedRegions :
                 Beside(buddy.base, BlockSize(buddy, buddy.max_order), r)
           /\ \A a \in live : \A r \in ReservedRegions :
                 Beside(a.ptr, BlockSize(buddy, RequestOrder(a.size, a.align)), r)

\* C33: memory_init has returned with three regions reserved, and alloc
\* has returned a block
C33_BlockGivenAfterInit ==
    /\ boot.pc = "returned"
    /\ err = ""
    /\ memblock.reserved_count = 3
    /\ last.op = "alloc" /\ last.ptr # 0


----------------------------------------------------------------------------
(* The global heap called with layouts whose alignment is a power of two   *)
(* up to the size class of the request.  GlobalAlloc::alloc reads          *)
(* layout.size() only.                                                     *)

AlignedLayouts ==
    { [size |-> 1, align |-> 1], [size |-> 4, align |-> 4],
      [size |-> 42, align |-> 8], [size |-> 64, align |-> 64],
      [size |-> 1024, align |-> 4], [size |-> 1024, align |-> 1024] }

HeapAlignedAllocStep ==
    \E l \in AlignedLayouts :
       /\ err = ""
       /\ last.n < MaxHeapOps
       /\ Cardinality(live) < MaxLive
       /\ LET r == global_alloc(St, l.size)
          IN /\ Commit(r.st)
             /\ live' = IF r.st.err = "" /\ r.ret # 0
                        THEN live \cup {[ptr |-> r.ret, size |-> l.size, align |-> l.align]}
                        ELSE live
             /\ last' = Op("alloc", r.ret, l.size, l.align, last.n + 1)
       /\ UNCHANGED <<frames, pmem, env, next_free_virt, boot, cpu, memblock>>

HeapAlignedNext == HeapAlignedAllocStep \/ HeapDeallocStep

SpecHeapAligned == HeapInit /\ [][HeapAlignedNext]_vars

\* C34: heap pointers honour the requested alignment.  A pointer that the
\* global alloc returns for a layout of at most 1024 bytes whose alignment
\* is a power of two up to its size class is a multiple of that alignment.
C34_HeapAlignment ==
    (last.op = "alloc" /\ last.ptr # 0 /\ err = "") => last.ptr % last.align = 0

\* C34: alloc(size 42, align 8) has returned a pointer
C34_Size42Align8Given ==
    /\ err = ""
    /\ last.op = "alloc" /\ last.size = 42 /\ last.align = 8
    /\ last.ptr # 0


----------------------------------------------------------------------------
(* Buddy: what one alloc and one dealloc do to the free lists              *)

\* the orders at or above k whose free list holds a block
NonEmptyFrom(k) == { j \in k..(MAX_ORDERS - 1) : FreeBlocks(j) # <<>> }

\* seq without its last element
Front(seq) == SubSeq(seq, 1, Len(seq) - 1)

\* C35: the steps of a Buddy alloc.  An alloc of order k, the least j with
\* PAGE_SIZE << j >= max(size, align), that returns takes the block from
\* the smallest non-empty free list of an order j >= k, returns the base of
\* that block, leaves one new block on each list of the orders k..j-1, the
\* upper half of the split at that order, and sets the 2^k bits of the
\* block it returns and no other; with every list from k up empty it
\* returns null and leaves lists and bitmap as they were.
C35_AllocSteps ==
    [][(last'.op = "alloc" /\ err' = "")
         => LET k == RequestOrder(last'.size, last'.align)
                i == get_block_index(buddy, last'.ptr)
            IN IF NonEmptyFrom(k) = {}
               THEN /\ last'.ptr = 0
                    /\ buddy'.map = buddy.map
                    /\ \A j \in 0..(MAX_ORDERS - 1) : FreeBlocks(j)' = FreeBlocks(j)
               ELSE /\ last'.ptr = FreeBlocks(Min(NonEmptyFrom(k)))[Len(FreeBlocks(Min(NonEmptyFrom(k))))]
                    /\ buddy'.map = buddy.map \cup { i + n : n \in 0..(Pow2(k) - 1) }
                    /\ \A j \in 0..(MAX_ORDERS - 1) :
                          FreeBlocks(j)' =
                             IF j = Min(NonEmptyFrom(k)) THEN Front(FreeBlocks(j))
                             ELSE IF k <= j /\ j < Min(NonEmptyFrom(k))
                             THEN Append(FreeBlocks(j), last'.ptr + BlockSize(buddy, j))
                             ELSE FreeBlocks(j)
           ]_vars

\* C35: an alloc of one page has split a block of order 2 or more
C35_SplitTwice ==
    /\ err = ""
    /\ last.op = "alloc" /\ last.ptr # 0
    /\ RequestOrder(last.size, last.align) = 0
    /\ FreeBlocks(0) # <<>> /\ FreeBlocks(1) # <<>>
    /\ FreeBlocks(0)[Len(FreeBlocks(0))] = last.ptr + PAGE_SIZE
    /\ FreeBlocks(1)[Len(FreeBlocks(1))] = last.ptr + 2 * PAGE_SIZE


\* the blocks on free list k
Listed(k) == { FreeBlocks(k)[i] : i \in 1..Len(FreeBlocks(k)) }

\* seq without the entries equal to x
Without(seq, x) ==
    LET Keep(y) == y # x
    IN SelectSeq(seq, Keep)

\* the block of order k that addr lies in
BlockAt(addr, k) == addr - ((addr - buddy.base) % BlockSize(buddy, k))

\* the order a dealloc of [addr, order k] ends at: one up for every buddy
\* that is free, that is on its list with its bits clear in map
RECURSIVE CoalescedOrder(_, _, _)
CoalescedOrder(addr, k, map) ==
    IF /\ k < MAX_ORDERS - 1
       /\ find_buddy_addr(buddy, BlockAt(addr, k), k) \in Listed(k)
       /\ is_free([buddy EXCEPT !.map = map],
                  get_block_index(buddy, find_buddy_addr(buddy, BlockAt(addr, k), k)), k)
    THEN CoalescedOrder(addr, k + 1, map)
    ELSE k

\* C36: Buddy coalescing is maximal.  A dealloc that returns has cleared
\* the bits of the block, has taken off its list every buddy it merged
\* with, the buddy being the block at offset (addr - base) XOR
\* (PAGE_SIZE << k) and the merge going on with the lower address while the
\* buddy is free, and has pushed one block, the merged one; after it no
\* free list holds a block together with its buddy.
C36_CoalescingMaximal ==
    [][(last'.op = "dealloc" /\ err' = "")
         => LET k == RequestOrder(last'.size, last'.align)
                i == get_block_index(buddy, last'.ptr)
                cleared == buddy.map \ { i + n : n \in 0..(Pow2(k) - 1) }
            IN /\ buddy'.map = cleared
               /\ \A j \in 0..(MAX_ORDERS - 1) :
                     FreeBlocks(j)' =
                        IF j = CoalescedOrder(last'.ptr, k, cleared)
                        THEN Append(FreeBlocks(j), BlockAt(last'.ptr, j))
                        ELSE IF k <= j /\ j < CoalescedOrder(last'.ptr, k, cleared)
                        THEN Without(FreeBlocks(j),
                                     find_buddy_addr(buddy, BlockAt(last'.ptr, j), j))
                        ELSE FreeBlocks(j)
               /\ \A j \in 0..(MAX_ORDERS - 1) : \A x \in Listed(j)' :
                     find_buddy_addr(buddy, x, j) \notin Listed(j)'
           ]_vars

\* C36: a dealloc has merged a page up two orders and stopped at a buddy
\* that is allocated
C36_MergedTwice ==
    /\ err = ""
    /\ last.op = "dealloc"
    /\ RequestOrder(last.size, last.align) = 0
    /\ BlockAt(last.ptr, 2) \in Listed(2)
    /\ ~is_free(buddy, get_block_index(buddy, find_buddy_addr(buddy, BlockAt(last.ptr, 2), 2)), 2)


----------------------------------------------------------------------------
(* Slab: the free list embedded in the free slots of a slab                *)

\* the slots from p on, each the first word of the one before; -1 stands
\* for a link that cannot be followed or that comes back to a visited slot
RECURSIVE ChainWalk(_, _)
ChainWalk(p, seen) ==
    IF p = 0 THEN <<>>
    ELSE IF p \in seen \/ ~Accessible(St, p) THEN <<-1>>
    ELSE <<p>> \o ChainWalk(Read(St, p), seen \cup {p})

FreeChain(s) == ChainWalk(Read(St, SlabF(s, "first_free_object")), {})

\* the slots of slab s of cache ci
Slots(ci, s) ==
    { align_up4(s + SLAB_META_SIZE) + i * caches[ci].object_size :
        i \in 0..(caches[ci].objects_per_slab - 1) }

\* C37: the embedded free list of a slab.  While alloc and matched dealloc
\* run on a cache, the chain from first_free over the first word of each
\* slot ends with 0 and visits objects_per_slab - objects_in_use distinct
\* slots of the slab; first_free is null exactly when the slab is full; the
\* objects the caller holds are objects_in_use in number and none of them
\* is on the chain, so alloc does not return an object that is allocated.
C37_SlabFreeChain ==
    err = "" =>
      \A s \in AllSlabs(1) :
         LET chain == { FreeChain(s)[i] : i \in 1..Len(FreeChain(s)) }
             held == { a.ptr : a \in { b \in live : SlabOf(1, b.ptr) = s } }
         IN /\ chain \subseteq Slots(1, s)
            /\ Len(FreeChain(s)) = caches[1].objects_per_slab - InUse(s)
            /\ (Read(St, SlabF(s, "first_free_object")) = 0)
                  <=> (InUse(s) = caches[1].objects_per_slab)
            /\ held \subseteq Slots(1, s)
            /\ Cardinality(held) = InUse(s)
            /\ held \cap chain = {}

\* C37: an object that was freed and is not the slot after it heads the
\* chain of a slab that still has an object out
C37_FreedSlotHeadsChain ==
    /\ err = ""
    /\ last.op = "dealloc"
    /\ InUse(SlabOf(1, last.ptr)) > 0
    /\ Len(FreeChain(SlabOf(1, last.ptr))) = 2
    /\ FreeChain(SlabOf(1, last.ptr))[1] = last.ptr
    /\ FreeChain(SlabOf(1, last.ptr))[2] > last.ptr + caches[1].object_size


----------------------------------------------------------------------------
(* The frame allocator with few frames left after init: two, three or five *)
(* free frames, in one bitmap word or across two.                          *)

HintRegions == { [base |-> 1048576, size |-> 65 * PAGE_SIZE],
                 [base |-> 1048576, size |-> 67 * PAGE_SIZE] }
HintKernelEnds == { KernelEnd, KernelEnd + PAGE_SIZE }

FrameHintInit ==
    /\ env \in PlainEnvs
    /\ \E r \in HintRegions, kernel_end \in HintKernelEnds :
          frames = frame_init(FrameAllocatorNew, {r}, KernelStart, kernel_end, BitmapPhysAddr)
    /\ ram = NoRam
    /\ buddy = NoBuddy
    /\ pool = NodePoolNew(NODE_POOL_VIRT_START, 1)
    /\ caches = <<>>
    /\ err = ""
    /\ pmem = NoRam
    /\ live = {}
    /\ last = NoOp
    /\ cpu = CpuIdle
    /\ next_free_virt = VIRT_START
    /\ boot = BootOff
    /\ memblock = MemBlockAllocatorNew

SpecFrameHint == FrameHintInit /\ [][FrameNext]_vars

\* C38: the search hint never hides a free frame.  After init and any
\* allocate_frame and deallocate_frame calls every bitmap word below the
\* hint is all ones, that is no free frame lies in a word below the hint;
\* allocate_frame has returned the lowest free frame of the whole bitmap,
\* so every frame still free is above it, and it has returned None only
\* with no frame free.
C38_HintHidesNothing ==
    /\ \A f \in frames.free : f \div BITMAP_ENTRY_SIZE_BITS >= frames.next_free_idx
    /\ last.op = "allocate_frame"
          => IF last.ptr = -1 THEN frames.free = {}
             ELSE \A f \in frames.free : f > FrameOf(last.ptr)

\* C38: allocate_frame took a frame of a word below the hint's, one that a
\* deallocate_frame had freed after the hint had moved up
C38_TakenBelowOldHint ==
    /\ last.op = "allocate_frame" /\ last.ptr # -1
    /\ last.prev_op = "deallocate_frame" /\ last.prev_ptr = last.ptr
    /\ \E f \in live : FrameOf(f) \div BITMAP_ENTRY_SIZE_BITS
                          > FrameOf(last.ptr) \div BITMAP_ENTRY_SIZE_BITS


----------------------------------------------------------------------------
(* Memblock: where the bytes of the segments are after a run of allocs     *)

\* half a page: all bases and sizes of the runs are multiples of it
REGION_UNIT == PAGE_SIZE \div 2

\* the units of [base, base + size)
Units(base, size) == (base \div REGION_UNIT)..((base + size) \div REGION_UNIT - 1)

\* the entries of an array that are not empty, by index
Entries(regions) == { i \in 0..(MAX_REGION - 1) : ~is_empty(regions[i]) }

UnitsOf(regions) ==
    UNION { Units(regions[i].base, regions[i].size) : i \in Entries(regions) }

RECURSIVE SegmentUnits(_)
SegmentUnits(segments) ==
    IF segments = <<>> THEN {}
    ELSE Units(segments[1].base, segments[1].size) \cup SegmentUnits(Tail(segments))

\* no two entries of the two arrays share a byte
Apart(a) ==
    LET all == { <<"Available", i>> : i \in Entries(a.memory_region) }
                 \cup { <<"Reserved", i>> : i \in Entries(a.reserved_region) }
        R(e) == IF e[1] = "Available" THEN a.memory_region[e[2]]
                ELSE a.reserved_region[e[2]]
    IN \A e, f \in all :
          e # f => (R(e).base + R(e).size <= R(f).base \/ R(f).base + R(f).size <= R(e).base)

\* neither array was full when a call of the run began
NeverFull ==
    \A i \in DOMAIN live : /\ live[i].before.memory_count < MAX_REGION
                           /\ live[i].before.reserved_count < MAX_REGION

\* C39: Memblock region bookkeeping.  After init and any successful allocs,
\* none of them begun on a full array: no two regions of the available and
\* the reserved array share a byte; the two arrays together hold the bytes
\* of the available segments of the boot map, all of them and no other;
\* memory_count and reserved_count are the numbers of entries that are not
\* empty; and the last alloc took [aligned_base, aligned_base + size rounded
\* up to a page) out of the available bytes into one reserved region and
\* left every other available byte available.
C39_RegionBookkeeping ==
    (err = "" /\ OnlyAllocs /\ NeverFull) =>
        /\ \A i \in Entries(memblock.memory_region) \cup Entries(memblock.reserved_region) :
              /\ memblock.memory_region[i].base % REGION_UNIT = 0
              /\ memblock.memory_region[i].size % REGION_UNIT = 0
              /\ memblock.reserved_region[i].base % REGION_UNIT = 0
              /\ memblock.reserved_region[i].size % REGION_UNIT = 0
        /\ Apart(Arrays)
        /\ UnitsOf(memblock.memory_region) \cup UnitsOf(memblock.reserved_region)
              \in { SegmentUnits(LongSegment), SegmentUnits(ShortSegments) }
        /\ Entries(memblock.memory_region) = 0..(memblock.memory_count - 1)
        /\ Entries(memblock.reserved_region) = 0..(memblock.reserved_count - 1)
        /\ (last.op = "alloc" /\ last.ptr # 0) =>
              /\ last.ptr % RequiredAlign(last.align) = 0
              /\ Units(last.ptr, AllocSize(last.size))
                    \subseteq UnitsOf(LastCall.before.memory_region)
              /\ UnitsOf(memblock.memory_region)
                    = UnitsOf(LastCall.before.memory_region)
                         \ Units(last.ptr, AllocSize(last.size))
              /\ memblock.reserved_region
                    = [LastCall.before.reserved_region
                         EXCEPT ![LastCall.before.reserved_count] =
                                   MemRegionNew(last.ptr, AllocSize(last.size))]

\* C39: an alloc that left both an alignment gap and a remainder
C39_GapAndRemainderKept ==
    /\ err = "" /\ OnlyAllocs /\ NeverFull
    /\ last.op = "alloc" /\ last.ptr # 0
    /\ memblock.memory_count = LastCall.before.memory_count + 1
    /\ \E i \in Entries(memblock.memory_region) :
          memblock.memory_region[i].base + memblock.memory_region[i].size = last.ptr


----------------------------------------------------------------------------
(* sync::Mutex under contexts that interleave.  cpu is here [state, pc,    *)
(* guards]: the state word of every Mutex, where every context is ("run",  *)
(* or the Mutex it spins on inside lock()), and the guards it holds; live  *)
(* is the set of <<context, mutex>> that have held a guard.  A swap that   *)
(* reads 1 stores 1 and changes nothing.                                   *)

MaxContexts == 3

Contexts == 1..MaxContexts
Mutexes == { "BUDDY_PAGE_ALLOCATOR", "NODE_POOL_ALLOCATOR" }

\* a swap that stores nothing
atomic_load_only(word, value) == [old |-> word, new |-> word]

\* AtomicUsize::swap
atomic_swap(word, value) == [old |-> word, new |-> value]

\* AtomicUsize::store
atomic_store(word, value) == value

\* live: the mutexes a guard of which has been dropped;
\* last: the latest turn of a loop of lock, or drop of a guard
MutexInit ==
    /\ env \in { e \in PlainEnvs : e.garbage = 0 }
    /\ cpu = [state |-> [m \in Mutexes |-> 0],
              pc |-> [c \in Contexts |-> "run"],
              guards |-> [c \in Contexts |-> {}]]
    /\ memblock = MemBlockAllocatorNew
    /\ frames = FrameAllocatorNew
    /\ pool = NodePoolNew(NODE_POOL_VIRT_START, 1)
    /\ pmem = NoRam
    /\ ram = NoRam
    /\ buddy = NoBuddy
    /\ caches = <<>>
    /\ err = ""
    /\ live = {}
    /\ last = NoOp
    /\ next_free_virt = VIRT_START
    /\ boot = BootOff

\* a context calls Mutex::lock, under the locks the descent allows
MutexLockStep ==
    \E c \in Contexts, m \in Mutexes :
       /\ cpu.pc[c] = "run"
       /\ \A h \in cpu.guards[c] : InOrder(h, m)
       /\ cpu' = [cpu EXCEPT !.pc[c] = m]
       /\ UNCHANGED <<buddy, pool, caches, ram, frames, pmem, memblock, next_free_virt,
                      boot, env, err, live, last>>

\* one turn of the loop of lock: the swap, and the guard when it read 0
MutexSwap(c, m) ==
    /\ cpu.pc[c] = m
    /\ LET r == atomic_swap(cpu.state[m], 1)
       IN /\ cpu' = IF r.old = 1 THEN [cpu EXCEPT !.state[m] = r.new]
                    ELSE [cpu EXCEPT !.state[m] = r.new, !.pc[c] = "run",
                                     !.guards[c] = @ \cup {m}]
          /\ last' = [NoOp EXCEPT !.op = IF r.old = 1 THEN "spin" ELSE "lock",
                                  !.ptr = c,
                                  !.n = (last.n + 1) % 2]
    /\ UNCHANGED <<buddy, pool, caches, ram, frames, pmem, memblock, next_free_virt,
                   boot, env, err, live>>

MutexSwapStep ==
    \E c \in Contexts, m \in Mutexes :
       /\ cpu.pc[c] = m
       /\ MutexSwap(c, m)

\* the guard of m that context c holds goes out of scope
MutexDrop(c, m) ==
    /\ cpu.pc[c] = "run"
    /\ m \in cpu.guards[c]
    /\ cpu' = [cpu EXCEPT !.state[m] = atomic_store(cpu.state[m], 0),
                          !.guards[c] = @ \ {m}]
    /\ live' = live \cup {m}
    /\ last' = [NoOp EXCEPT !.op = "drop", !.ptr = c, !.n = last.n]
    /\ UNCHANGED <<buddy, pool, caches, ram, frames, pmem, memblock, next_free_virt,
                   boot, env, err>>

MutexDropStep ==
    \E c \in Contexts, m \in Mutexes :
       /\ m \in cpu.guards[c]
       /\ MutexDrop(c, m)

MutexNext == MutexLockStep \/ MutexSwapStep \/ MutexDropStep

SpecMutex == MutexInit /\ [][MutexNext]_vars

\* every context that spins goes on taking the turns of its loop, and
\* every guard goes out of scope in the end
SpecMutexFair ==
    /\ SpecMutex
    /\ \A c \in Contexts : \A m \in Mutexes :
          WF_vars(MutexSwap(c, m)) /\ WF_vars(MutexDrop(c, m))

\* the contexts that hold a guard of m
Holders(m) == { c \in Contexts : m \in cpu.guards[c] }

MutualExclusion ==
    \A m \in Mutexes :
       /\ Cardinality(Holders(m)) <= 1
       /\ (cpu.state[m] = 1) <=> (Holders(m) # {})
       /\ cpu.state[m] \in {0, 1}

\* the turn context c takes on m while the state word of m is 0
FirstSwap(c, m) ==
    /\ cpu.pc[c] = m
    /\ cpu.state[m] = 0
    /\ last' # last
    /\ last'.ptr = c
    /\ last'.op # "drop"

\* C40 as stated: mutual exclusion, and a context that spins in lock()
\* holds the guard some time after the holder has dropped its own,
\* whatever the other contexts do.
C40_SpinnerAlwaysAcquires ==
    /\ []MutualExclusion
    /\ \A c \in Contexts : \A m \in Mutexes :
          (cpu.pc[c] = m /\ cpu.state[m] = 0) ~> (m \in cpu.guards[c])

\* C40: spinlock mutual exclusion.  However the contexts interleave, a
\* Mutex has at most one guard, its state word is 1 exactly while the
\* guard exists, so that the drop of the guard leaves it 0; and once the
\* holder has dropped its guard, one of the contexts that spin in lock()
\* takes the lock: a given one does when its swap is the first after
\* the drop.
C40_MutualExclusion ==
    /\ []MutualExclusion
    /\ \A c \in Contexts : \A m \in Mutexes :
          (cpu.pc[c] = m /\ cpu.state[m] = 0) ~> (cpu.state[m] = 1)
    /\ [][\A c \in Contexts : \A m \in Mutexes :
             FirstSwap(c, m) => m \in cpu'.guards[c]]_vars

\* C40: a context has just taken the lock of a Mutex the guard of which
\* was dropped before, while another context spins on it
C40_TakenAfterDrop ==
    \E m \in Mutexes : \E d, e \in Contexts :
       /\ d # e
       /\ m \in live
       /\ m \in cpu.guards[d]
       /\ last.op = "lock" /\ last.ptr = d
       /\ cpu.pc[e] = m

====
